---------------------------- MODULE Spec2Model ----------------------------
(***************************************************************************)
(* A model of the houston-python client runtime.                          *)
(*                                                                         *)
(*   Spec         execute_service and the bounded-wait continuation       *)
(*                engine (houston/service.py, houston/commands.py wait),  *)
(*                with at-least-once delivery of trigger events and a     *)
(*                server that arbitrates the stage state atomically.      *)
(*   SpecChain    one continuation chain, every continuation delivered    *)
(*                exactly once, each invocation run to completion.        *)
(*   SpecRace     two invocations of one continuation at the same time.   *)
(*   SpecRequest  InterfaceRequest.request (houston/interface.py).        *)
(*   SpecOperation  a client operation under retry_wrapper                *)
(*                (houston/client.py).                                    *)
(*   SpecPlan     independent_stages over the plans of the model.         *)
(*   SpecClient   get_stage, get_params and trigger of one client.        *)
(*                                                                         *)
(* Python values are written as tagged strings: "str:7" is the str '7',   *)
(* "int:7" the int 7, "obj:logger" a logging.Logger, "dict:context" the   *)
(* houston_context dict.                                                   *)
(*                                                                         *)
(* The environment fails where the code or its documentation reckons with *)
(* a failure: a started- or finished-state request can be rejected or     *)
(* meet a server error, and a trigger can raise.  fail_stage, which the    *)
(* server treats as an unconditional overwrite, returns.  "Dispatched"    *)
(* and "emitted" mean passed to client.trigger.                            *)
(***************************************************************************)
EXTENDS Integers, Sequences, FiniteSets, TLC

VARIABLES
    net,         \* trigger events published to this service and not yet consumed
    inv,         \* the invocations of the service: one record per slot
    server,      \* the server-side state of the stage the service runs
    dispatched,  \* per downstream stage: how often client.trigger was called for it
    deliveries,  \* how many events the platform has handed to the service
    service,     \* how execute_service is set up: the wait callback and its signature
    origin,      \* the externally delivered event the execution started from
    contTotal,   \* continuation events passed to client.trigger, over all invocations
    began,       \* history: some invocation had its start accepted and func returned
    req,         \* one call of InterfaceRequest.request, or one client operation
    client       \* a Houston client: its plan, and the last local operation on it

vars == <<net, inv, server, dispatched, deliveries, service, origin, contTotal, began, req, client>>

engineVars == <<net, inv, server, dispatched, deliveries, service, origin, contTotal, began>>

----------------------------------------------------------------------------
(* Bounds of the model *)

\* time_limit_seconds, in ticks of the model's clock
TimeLimit == 2
\* events the platform hands to the service in one behaviour of Spec
MaxDeliveries == 2

(* Program constants *)

HOUSTON_MAX_WAIT_INVOCATIONS == 150

\* retry((OSError, AttributeError), tries=3, ...)
WaitRetryTries == 3

\* the slots invocations run in: Spec runs one invocation at a time in slot 1,
\* SpecRace runs two at the same time
Invs == {1, 2}

----------------------------------------------------------------------------
(* Python dicts: functions from a finite set of keys to tagged values *)

EmptyDict == [k \in {} |-> "none"]

Restrict(d, keys) == [k \in (DOMAIN d) \cap keys |-> d[k]]

WithKey(d, key, val) == [k \in (DOMAIN d) \cup {key} |-> IF k = key THEN val ELSE d[k]]

\* json.loads applied to a value that is a str: JSON text becomes the value it
\* denotes, anything else raises JSONDecodeError and the value is kept.
JsonLoads(v) == IF v = "str:7" THEN "int:7" ELSE v

\* json.dumps accepts every value of the model but a Logger.
Serializable(d) == \A k \in DOMAIN d : d[k] # "obj:logger"

\* the wait_params a stage's func returns, or a wait event carries
ParamDicts ==
    { EmptyDict,
      [k \in {"job"} |-> "str:7"],
      [k \in {"job", "extra"} |-> IF k = "job" THEN "str:x" ELSE "int:7"] }

\* inspect.getfullargspec of the wait callback: its named arguments, and
\* whether it takes **kwargs
Signatures ==
    { [args |-> {"job"}, varkw |-> FALSE],
      [args |-> {"job", "log", "houston_context"}, varkw |-> FALSE],
      [args |-> {}, varkw |-> TRUE] }

\* prepare_params(params, target_func, houston_context): the keyword arguments
\* for target_func (kwargs), and the caller's dict as the call leaves it
\* (source): with **kwargs no new dict is made, and the caller's dict is
\* changed in place.
prepare_params(params, sig) ==
    LET filtered == IF sig.varkw THEN params ELSE Restrict(params, sig.args)
        parsed   == [k \in DOMAIN filtered |-> JsonLoads(filtered[k])]
        withLog  == IF ("log" \in sig.args \/ sig.varkw) /\ "log" \notin DOMAIN parsed
                    THEN WithKey(parsed, "log", "obj:logger")
                    ELSE parsed
        withCtx  == IF ("houston_context" \in sig.args \/ sig.varkw)
                       /\ "houston_context" \notin DOMAIN withLog
                    THEN WithKey(withLog, "houston_context", "dict:context")
                    ELSE withLog
    IN  [kwargs |-> withCtx, source |-> IF sig.varkw THEN withCtx ELSE params]

\* A value that JSON or a plan may leave out or set to null is a record: tag
\* is "absent" (no such key), "none" (None), "str" or "list", val the names.
Absent == [tag |-> "absent", val |-> <<>>]

NoneVal == [tag |-> "none", val |-> <<>>]

StrOf(x) == [tag |-> "str", val |-> <<x>>]

ListOf(xs) == [tag |-> "list", val |-> xs]

Range(seq) == {seq[n] : n \in 1..Len(seq)}

----------------------------------------------------------------------------
(* Events *)

Downstream == <<"B", "C">>

DownstreamSet == {Downstream[n] : n \in 1..Len(Downstream)}

\* A stage event as execute_service reads it.  A key that is absent and one
\* that is False read the same through event.get(key, False);
\* wait_invocation_count absent reads as wait's default 1.
StageEvent(ignDeps, ignDependants) ==
    [command |-> "none", plan |-> "p", stage |-> "A", mission_id |-> "m1",
     ignore_dependencies |-> ignDeps, ignore_dependants |-> ignDependants,
     wait_invocation_count |-> 1, wait_params |-> EmptyDict]

WaitEvent(plan, stage, mission, count, params) ==
    [command |-> "wait", plan |-> plan, stage |-> stage, mission_id |-> mission,
     ignore_dependencies |-> FALSE, ignore_dependants |-> FALSE,
     wait_invocation_count |-> count, wait_params |-> params]

\* an event carrying the command skip for one stage of a mission
SkipEvent ==
    [command |-> "skip", plan |-> "p", stage |-> "A", mission_id |-> "m1",
     ignore_dependencies |-> FALSE, ignore_dependants |-> FALSE,
     wait_invocation_count |-> 1, wait_params |-> EmptyDict]

NoEvent == StageEvent(FALSE, FALSE)

IdleInv ==
    [pc |-> "idle", event |-> NoEvent, engine |-> FALSE, count |-> 0,
     wait_params |-> EmptyDict, recv_params |-> EmptyDict, params |-> EmptyDict,
     elapsed |-> 0, wait_res |-> FALSE, tries |-> 0, polls |-> 0, slept |-> 0,
     todo |-> <<>>, next |-> <<>>, calls |-> <<>>, cont |-> <<>>, finished |-> <<>>,
     sent |-> <<>>, endResp |-> "none", outcome |-> "none", err |-> "none",
     raised |-> "none", concurrent |-> FALSE, startResp |-> "none",
     attempts |-> <<>>, payloads |-> <<>>, respNext |-> Absent,
     trigRaised |-> "none", entry |-> 0]

IdleReq == [pc |-> "idle"]

IdleClient == [pc |-> "idle"]

----------------------------------------------------------------------------
(* The pieces of wait and execute_service the actions are built from *)

\* commands.py 226: if wait_invocation_count > HOUSTON_MAX_WAIT_INVOCATIONS
ExceedsCeiling_OffByOne(count) == count > HOUSTON_MAX_WAIT_INVOCATIONS + 1

ExceedsCeiling_Never(count) == FALSE

ExceedsCeiling(count) == count > HOUSTON_MAX_WAIT_INVOCATIONS

\* commands.py 226-229: above the ceiling wait logs an error and returns True
\* without a request to the server
StopsQuietly_FailsStage == FALSE

StopsQuietly == TRUE

\* commands.py 246: while seconds_elapsed < time_limit_seconds and not wait_res
LoopContinues_AtLeastOnce(elapsed, wait_res) == elapsed <= TimeLimit /\ ~wait_res

LoopContinues(elapsed, wait_res) == elapsed < TimeLimit /\ ~wait_res

\* commands.py 258, 269: if wait_res: (end the stage) else: (continue in a new invocation)
AfterLoop_Inverted(wait_res) == IF wait_res THEN "cont" ELSE "end"

AfterLoop(wait_res) == IF wait_res THEN "end" ELSE "cont"

\* commands.py 274-275: the event of the next invocation
ContinuationEvent_SameCount(plan, stage, mission_id, count, wait_params) ==
    WaitEvent(plan, stage, mission_id, count, wait_params)

ContinuationEvent(plan, stage, mission_id, count, wait_params) ==
    WaitEvent(plan, stage, mission_id, count + 1, wait_params)

\* The ignoreDependencies of the finished-state request.  service.py 130-131
\* passes the event's ignore_dependants; commands.py 260 calls
\* end_stage(stage, mission_id) and so sends the default, False.
EndIgnoreDependencies(engine, event) ==
    IF engine THEN FALSE ELSE event.ignore_dependants

\* commands.py 262: wait catches HoustonClientError around end_stage and
\* trigger_all; service.py 130-133 catches nothing.
SwallowsClientError_Never(engine) == FALSE

SwallowsClientError_NotInWait(engine) == ~engine

SwallowsClientError(engine) == engine

\* the retry decorator of commands.py 21 on one failed attempt of the callback:
\* the tries that are left, 0 when the error is raised to the caller
TriesAfterFailure_GiveUp(tries) == 0

TriesAfterFailure(tries) == tries - 1

\* The server's answer to a finished-state request: the stage state is
\* arbitrated atomically, and only a started stage can be finished.
ServerAcceptsFinish(state) == state = "Started"

\* The server's answer to a started-state request.
ServerAcceptsStart(state) == state \in {"NotStarted", "Failed"}

\* the 'next' list of an accepted finished-state request
ServerNext(ignoreDependencies) == IF ignoreDependencies THEN <<>> ELSE Downstream

\* service.py 97-103: what execute_service does after h.start_stage: it goes on
\* to func, returns quietly on a HoustonClientError, or lets any other error out
StartOutcome_IgnoresRejection(resp) ==
    IF resp = "HoustonServerError" THEN "raised" ELSE "func"

StartOutcome_RunsAnyway(resp) == "func"

StartOutcome(resp) ==
    CASE resp = "ok" -> "func"
      [] resp = "HoustonClientError" -> "returned"
      [] OTHER -> "raised"

\* commands.py 229, 267, 278 and 176: wait and skip return True wherever they return
CommandReturns == TRUE

\* service.py 82-85: if run_command(...): return
CommandEnds_Never(result) == FALSE

CommandEnds(result) == result

\* 'next' as the response body holds it: null when no stage is to be triggered
ServerNextJson(ignoreDependencies) ==
    IF ServerNext(ignoreDependencies) = <<>> THEN NoneVal
    ELSE ListOf(ServerNext(ignoreDependencies))

\* client.py 576-578: if stages is None: return; for stage in stages
StagesToTrigger_SkipFirst(stages) ==
    IF stages.tag = "none" THEN <<>> ELSE Tail(stages.val)

StagesToTrigger(stages) == IF stages.tag = "none" THEN <<>> ELSE stages.val

\* client.py 579-580: the data trigger_all hands to trigger for one stage;
\* wait and execute_service pass neither ignore flag
TriggerAllPayload_NoMission(stage, mission_id, plan_name) ==
    [stage |-> stage, mission_id |-> "none", plan |-> plan_name,
     ignore_dependencies |-> FALSE, ignore_dependants |-> FALSE]

TriggerAllPayload(stage, mission_id, plan_name) ==
    [stage |-> stage, mission_id |-> mission_id, plan |-> plan_name,
     ignore_dependencies |-> FALSE, ignore_dependants |-> FALSE]

\* client.py 578-580: trigger_all calls self.trigger in a plain loop, so an
\* error of one dispatch ends the loop
StopsAtError_Never == FALSE

StopsAtError == TRUE

\* a guard that keeps the invocation counter finite whatever the ceiling test does
CountCap == HOUSTON_MAX_WAIT_INVOCATIONS + 3

\* the invocation ends: it returns, or an error leaves it
\* When a command returns to execute_service (service.py 82-85) and its result
\* does not end the invocation, execute_service goes on to start the stage.
Finish(r, outcome, error) ==
    IF /\ outcome = "returned"
       /\ r.event.command # "none"
       /\ r.engine \/ r.pc = "command"
       /\ ~CommandEnds(CommandReturns)
    THEN [r EXCEPT !.pc = "start", !.engine = FALSE]
    ELSE [r EXCEPT !.pc = "done", !.outcome = outcome, !.raised = error]

FreeSlots == {i \in Invs : inv[i].pc \in {"idle", "done"}}

\* the invocations that are running; the field concurrent of an invocation
\* records that another one ran while it did
Running == Invs \ FreeSlots

----------------------------------------------------------------------------
(* execute_service *)

\* The platform hands event e to a new invocation of the service.  Delivery
\* is at least once: the event may stay in flight and be handed over again.
\* service.py 77-85 routes a command event to run_command, 91-101 starts the
\* stage of a stage event.
Deliver(i, e, consume) ==
    /\ e \in net
    /\ i \in FreeSlots
    /\ \A j \in FreeSlots : i <= j
    /\ e.wait_invocation_count <= CountCap
    /\ inv' = [j \in Invs |->
                 IF j = i
                 THEN [IdleInv EXCEPT !.pc = CASE e.command = "wait" -> "wait"
                                              [] e.command = "none" -> "start"
                                              [] OTHER -> "command",
                                      !.event = e,
                                      !.engine = (e.command = "wait"),
                                      !.count = e.wait_invocation_count,
                                      !.wait_params = e.wait_params,
                                      !.recv_params = e.wait_params,
                                      !.concurrent = (Running # {})]
                 ELSE IF j \in Running THEN [inv[j] EXCEPT !.concurrent = TRUE]
                 ELSE inv[j]]
    /\ net' = IF consume THEN net \ {e} ELSE net
    /\ deliveries' = deliveries + 1
    /\ UNCHANGED <<server, dispatched, service, origin, contTotal, req, client, began>>

\* service.py 77-85 with commands.py 168-176: run_command runs skip, which
\* asks the server to mark the stage skipped and returns True, or lets the
\* request's error out (out = "Error").
RunCommand(i, out) ==
    /\ inv[i].pc = "command"
    /\ LET r == [inv[i] EXCEPT !.calls = Append(@, "skip_stage")]
       IN  inv' = [inv EXCEPT ![i] =
                 IF out = "ok" THEN Finish(r, "returned", "none")
                 ELSE Finish(r, "raised", "HoustonServerError")]
    /\ server' = IF out = "ok" THEN "Skipped" ELSE server
    /\ UNCHANGED <<net, dispatched, deliveries, service, origin, contTotal, req, client, began>>

\* service.py 97-101: h.start_stage; a HoustonClientError ends the invocation
\* quietly, any other error leaves execute_service.
StartStage(i, resp) ==
    /\ inv[i].pc = "start"
    /\ LET answer == IF resp = "ServerError" THEN "HoustonServerError"
                     ELSE IF ServerAcceptsStart(server) THEN "ok"
                     ELSE "HoustonClientError"
           r == [inv[i] EXCEPT !.calls = Append(@, "start_stage"), !.startResp = answer]
       IN  /\ inv' = [inv EXCEPT ![i] =
                 CASE StartOutcome(answer) = "func" -> [r EXCEPT !.pc = "func"]
                   [] StartOutcome(answer) = "returned" -> Finish(r, "returned", "none")
                   [] OTHER -> Finish(r, "raised", answer)]
           /\ server' = IF answer = "ok" THEN "Started" ELSE server
    /\ UNCHANGED <<net, dispatched, deliveries, service, origin, contTotal, req, client, began>>

\* service.py 112-124: func returns func_res; with a wait callback the stage is
\* handed to wait(**event, wait_params=func_res), else it is ended directly.
FuncReturns(i, func_res) ==
    /\ inv[i].pc = "func"
    /\ func_res \in (IF service.has_cb THEN ParamDicts ELSE {EmptyDict})
    /\ inv' = [inv EXCEPT ![i] =
                 [@ EXCEPT !.calls = Append(@, "func"),
                           !.pc = IF service.has_cb THEN "wait" ELSE "end",
                           !.engine = service.has_cb,
                           !.wait_params = func_res,
                           !.recv_params = func_res]]
    /\ began' = (began \/ inv[i].startResp = "ok")
    /\ UNCHANGED <<net, server, dispatched, deliveries, service, origin, contTotal, req, client>>

\* service.py 115-119: func raises; the stage is marked failed and the error re-raised.
FuncRaises_Swallowed(i) ==
    /\ inv[i].pc = "func"
    /\ inv' = [inv EXCEPT ![i] =
                 [@ EXCEPT !.calls = Append(@, "func"), !.pc = "end", !.err = "FuncError"]]
    /\ UNCHANGED <<net, server, dispatched, deliveries, service, origin, contTotal, req, client, began>>

FuncRaises(i) ==
    /\ inv[i].pc = "func"
    /\ inv' = [inv EXCEPT ![i] =
                 [@ EXCEPT !.calls = Append(@, "func"), !.pc = "fail", !.err = "FuncError"]]
    /\ UNCHANGED <<net, server, dispatched, deliveries, service, origin, contTotal, req, client, began>>

----------------------------------------------------------------------------
(* wait *)

\* commands.py 226-246: the ceiling test, seconds_elapsed (el), prepare_params
\* and the first test of the loop condition.
WaitEntry(i, el) ==
    /\ inv[i].pc = "wait"
    /\ el \in 0..TimeLimit
    /\ LET r  == inv[i]
           pp == prepare_params(r.wait_params, service.sig)
       IN  inv' = [inv EXCEPT ![i] =
                 IF ExceedsCeiling(r.count)
                 THEN IF StopsQuietly THEN Finish(r, "returned", "none")
                      ELSE [r EXCEPT !.pc = "fail", !.err = "CeilingError"]
                 ELSE [r EXCEPT !.params = pp.kwargs,
                                !.wait_params = pp.source,
                                !.elapsed = el,
                                !.entry = el,
                                !.wait_res = FALSE,
                                !.tries = WaitRetryTries,
                                !.pc = IF LoopContinues(el, FALSE)
                                       THEN "poll" ELSE AfterLoop(FALSE)]]
    /\ UNCHANGED <<net, server, dispatched, deliveries, service, origin, contTotal, req, client, began>>

\* commands.py 247-256: one attempt of wrapped_wait_callback(**params) in the
\* loop body.  The first attempt of an iteration follows time.sleep; a
\* transient error (OSError, AttributeError) is retried while tries are left;
\* a value ends the iteration, seconds_elapsed is read again (el) and the loop
\* condition is tested.  Any error that leaves the wrapper goes to the except
\* branch.
Poll(i, out, el) ==
    /\ inv[i].pc = "poll"
    /\ el \in (inv[i].elapsed + 1)..TimeLimit
    /\ LET r0 == inv[i]
           r  == [r0 EXCEPT !.polls = @ + 1,
                            !.slept = IF r0.tries = WaitRetryTries THEN @ + 1 ELSE @,
                            !.attempts = IF r0.tries = WaitRetryTries
                                         THEN <<out>> ELSE Append(@, out)]
       IN  inv' = [inv EXCEPT ![i] =
                 CASE out \in {"true", "false"} ->
                        [r EXCEPT !.wait_res = (out = "true"),
                                  !.elapsed = el,
                                  !.tries = WaitRetryTries,
                                  !.pc = IF LoopContinues(el, out = "true")
                                         THEN "poll" ELSE AfterLoop(out = "true")]
                   [] out = "transient" ->
                        IF TriesAfterFailure(r.tries) > 0
                        THEN [r EXCEPT !.tries = TriesAfterFailure(r.tries)]
                        ELSE [r EXCEPT !.tries = 0, !.pc = "fail", !.err = "OSError"]
                   [] OTHER ->
                        [r EXCEPT !.pc = "fail", !.err = "CallbackError"]]
    /\ UNCHANGED <<net, server, dispatched, deliveries, service, origin, contTotal, req, client, began>>

\* commands.py 252-256 and service.py 115-119, the except branch:
\* client.fail_stage, then the error that was caught is raised again.  The
\* server overwrites the stage state unconditionally.
FailStage_Skip(i) ==
    /\ inv[i].pc = "fail"
    /\ inv' = [inv EXCEPT ![i] = Finish(@, "raised", inv[i].err)]
    /\ UNCHANGED <<net, server, dispatched, deliveries, service, origin, contTotal, req, client, began>>

FailStage(i) ==
    /\ inv[i].pc = "fail"
    /\ inv' = [inv EXCEPT ![i] =
                 Finish([@ EXCEPT !.calls = Append(@, "fail_stage")], "raised", inv[i].err)]
    /\ server' = "Failed"
    /\ UNCHANGED <<net, dispatched, deliveries, service, origin, contTotal, req, client, began>>

\* commands.py 260 and service.py 130-131: the finished-state request.  resp
\* is "server" (the server decides on the stage state) or "ServerError".
EndStage(i, resp) ==
    /\ inv[i].pc = "end"
    /\ LET r0  == inv[i]
           ign == EndIgnoreDependencies(r0.engine, r0.event)
           r   == [r0 EXCEPT !.calls = Append(@, "end_stage"),
                             !.finished = Append(@, ign)]
       IN  IF resp = "ServerError"
           THEN /\ inv' = [inv EXCEPT ![i] =
                          Finish([r EXCEPT !.endResp = "ServerError"],
                                 "raised", "HoustonServerError")]
                /\ UNCHANGED server
           ELSE IF ServerAcceptsFinish(server)
           THEN /\ inv' = [inv EXCEPT ![i] =
                          LET a == [r EXCEPT !.endResp = "ok",
                                             !.respNext = ServerNextJson(ign),
                                             !.next = StagesToTrigger(ServerNextJson(ign)),
                                             !.todo = StagesToTrigger(ServerNextJson(ign)),
                                             !.pc = "trig"]
                          IN  IF a.todo = <<>> THEN Finish(a, "returned", "none") ELSE a]
                /\ server' = "Finished"
           ELSE /\ inv' = [inv EXCEPT ![i] =
                          LET a == [r EXCEPT !.endResp = "ClientError"]
                          IN  IF SwallowsClientError(r.engine)
                              THEN Finish(a, "returned", "none")
                              ELSE Finish(a, "raised", "HoustonClientError")]
                /\ UNCHANGED server
    /\ UNCHANGED <<net, dispatched, deliveries, service, origin, contTotal, req, client, began>>

\* client.py 576-580 under commands.py 261 / service.py 133: client.trigger for
\* the next stage of the list.  out is what the dispatch does: "ok",
\* "ClientError" (HoustonClientError) or "Error" (any other error).
Dispatch(i, out) ==
    /\ inv[i].pc = "trig"
    /\ inv[i].todo # <<>>
    /\ LET r0 == inv[i]
           s  == Head(r0.todo)
           r  == [r0 EXCEPT !.calls = Append(@, "trigger"), !.sent = Append(@, s),
                            !.payloads = Append(@, TriggerAllPayload(s, r0.event.mission_id,
                                                                      r0.event.plan))]
           e  == IF out = "ClientError" THEN "HoustonClientError" ELSE "TriggerError"
           f  == [r EXCEPT !.trigRaised = e]
       IN  /\ inv' = [inv EXCEPT ![i] =
                 CASE out = "ok" ->
                        LET a == [r EXCEPT !.todo = Tail(@)]
                        IN  IF a.todo = <<>> THEN Finish(a, "returned", "none") ELSE a
                   [] ~StopsAtError ->
                        LET a == [f EXCEPT !.todo = Tail(@)]
                        IN  IF a.todo = <<>> THEN Finish(a, "returned", "none") ELSE a
                   [] out = "ClientError" ->
                        IF SwallowsClientError(r.engine)
                        THEN Finish(f, "returned", "none")
                        ELSE Finish(f, "raised", "HoustonClientError")
                   [] OTHER -> Finish(f, "raised", "TriggerError")]
           /\ dispatched' = [dispatched EXCEPT ![s] = @ + 1]
    /\ UNCHANGED <<net, server, deliveries, service, origin, contTotal, req, client, began>>

\* commands.py 274-278: the continuation event is built and passed to
\* client.trigger, which JSON-encodes it and publishes it (out = "ok") or
\* raises (out = "Error"; a payload json.dumps rejects always raises).
Continue(i, out) ==
    /\ inv[i].pc = "cont"
    /\ LET r0 == inv[i]
           ev == ContinuationEvent(r0.event.plan, r0.event.stage, r0.event.mission_id,
                                   r0.count, r0.wait_params)
           r  == [r0 EXCEPT !.calls = Append(@, "trigger"), !.cont = Append(@, ev)]
       IN  IF ~Serializable(ev.wait_params)
           THEN /\ inv' = [inv EXCEPT ![i] = Finish(r, "raised", "TypeError")]
                /\ UNCHANGED net
           ELSE IF out = "ok"
           THEN /\ inv' = [inv EXCEPT ![i] = Finish(r, "returned", "none")]
                /\ net' = net \cup {ev}
           ELSE /\ inv' = [inv EXCEPT ![i] = Finish(r, "raised", "TriggerError")]
                /\ UNCHANGED net
    /\ contTotal' = contTotal + 1
    /\ UNCHANGED <<server, dispatched, deliveries, service, origin, req, client, began>>

----------------------------------------------------------------------------
(* Spec: execute_service and the continuation engine *)

StartCounts == {1, HOUSTON_MAX_WAIT_INVOCATIONS, HOUSTON_MAX_WAIT_INVOCATIONS + 1}

NoCallback == [has_cb |-> FALSE, sig |-> [args |-> {}, varkw |-> FALSE]]

Services == {NoCallback} \cup {[has_cb |-> TRUE, sig |-> s] : s \in Signatures}

RootEvents(svc) ==
    {StageEvent(d, ign) : d \in BOOLEAN, ign \in BOOLEAN}
    \cup {SkipEvent}
    \cup (IF svc.has_cb
          THEN {WaitEvent("p", "A", "m1", c, pd) : c \in StartCounts, pd \in ParamDicts}
          ELSE {})

Init ==
    /\ service \in Services
    /\ origin \in RootEvents(service)
    /\ net = {origin}
    /\ inv = [i \in Invs |-> IdleInv]
    /\ server = IF origin.command = "wait" THEN "Started" ELSE "NotStarted"
    /\ dispatched = [s \in DownstreamSet |-> 0]
    /\ deliveries = 0
    /\ contTotal = 0
    /\ began = FALSE
    /\ req = IdleReq
    /\ client = IdleClient

Next ==
    \/ \E e \in net, consume \in BOOLEAN :
          deliveries < MaxDeliveries /\ Deliver(1, e, consume)
    \/ \E out \in {"ok", "Error"} : RunCommand(1, out)
    \/ \E resp \in {"server", "ServerError"} : StartStage(1, resp)
    \/ \E fr \in ParamDicts : FuncReturns(1, fr)
    \/ FuncRaises(1)
    \/ \E el \in 0..TimeLimit : WaitEntry(1, el)
    \/ \E out \in {"true", "false", "transient", "fatal"}, el \in 1..TimeLimit :
          Poll(1, out, el)
    \/ FailStage(1)
    \/ \E resp \in {"server", "ServerError"} : EndStage(1, resp)
    \/ \E out \in {"ok", "ClientError", "Error"} : Dispatch(1, out)
    \/ \E out \in {"ok", "Error"} : Continue(1, out)

Spec == Init /\ [][Next]_vars

----------------------------------------------------------------------------
(* Properties of one invocation of wait, under Spec *)

Count(seq, x) == Cardinality({n \in 1..Len(seq) : seq[n] = x})

IsPrefix(p, q) == Len(p) <= Len(q) /\ \A n \in 1..Len(p) : p[n] = q[n]

\* the errors of the wait callback that leave the retry wrapper
CallbackErrors == {"OSError", "CallbackError"}

\* invocation i has run wait to its end
WaitDone(i) == inv[i].engine /\ inv[i].pc = "done"

\* wait ended because the time limit was reached: within the ceiling, the
\* callback never returned true and no error of it left the retry wrapper
TimedOut(i) ==
    /\ WaitDone(i)
    /\ inv[i].count <= HOUSTON_MAX_WAIT_INVOCATIONS
    /\ ~inv[i].wait_res
    /\ inv[i].err \notin CallbackErrors

\* C1: a wait invocation within the ceiling whose callback never returns true
\* and never raises until the time limit is reached passes exactly one
\* continuation event to client.trigger, with wait_invocation_count equal to
\* the received count plus 1, and never calls end_stage.
C1_TimeoutContinuesOnce ==
    \A i \in Invs :
        /\ Len(inv[i].cont) <= 1
        /\ TimedOut(i) =>
              /\ Len(inv[i].cont) = 1
              /\ inv[i].cont[1].wait_invocation_count = inv[i].event.wait_invocation_count + 1
              /\ Count(inv[i].calls, "end_stage") = 0

C1_Witness ==
    \E i \in Invs :
        /\ TimedOut(i)
        /\ inv[i].polls > 0
        /\ inv[i].elapsed >= TimeLimit
        /\ Len(inv[i].cont) = 1
        /\ inv[i].outcome = "returned"

\* wait ended after a poll of the callback returned true
PolledTrue(i) == WaitDone(i) /\ inv[i].wait_res

\* C2 as stated: whenever a poll of the callback returns true, end_stage is
\* called exactly once, every stage of the response's 'next' list is then
\* dispatched, and no continuation event is emitted.
C2_Original ==
    \A i \in Invs :
        PolledTrue(i) =>
            /\ Count(inv[i].calls, "end_stage") = 1
            /\ inv[i].endResp = "ok" => inv[i].sent = inv[i].next
            /\ inv[i].cont = <<>>

\* a dispatch of invocation i raised: the stage it was for is still to do
DispatchRaised(i) == inv[i].pc = "done" /\ inv[i].endResp = "ok" /\ inv[i].todo # <<>>

\* C2 (amended): whenever a poll of the callback returns true (also the poll
\* during which the time limit elapses), end_stage is called exactly once and
\* no continuation event is emitted; when end_stage returns a response the
\* stages of its 'next' list are dispatched in list order, all of them unless a
\* dispatch raises, and then the failing stage is the last one dispatched.
C2_TrueEndsStage ==
    \A i \in Invs :
        /\ (inv[i].engine /\ inv[i].wait_res) => inv[i].cont = <<>>
        /\ PolledTrue(i) =>
              /\ Count(inv[i].calls, "end_stage") = 1
              /\ inv[i].endResp = "ok" =>
                    /\ IsPrefix(inv[i].sent, inv[i].next)
                    /\ ~DispatchRaised(i) => inv[i].sent = inv[i].next
                    /\ DispatchRaised(i) => Len(inv[i].sent) = Len(inv[i].next) - Len(inv[i].todo) + 1
              /\ inv[i].endResp # "ok" => inv[i].sent = <<>>

C2_Witness ==
    \E i \in Invs :
        /\ PolledTrue(i)
        /\ inv[i].elapsed >= TimeLimit
        /\ inv[i].endResp = "ok"
        /\ inv[i].next # <<>>
        /\ inv[i].sent = inv[i].next
        /\ inv[i].outcome = "returned"

C6_ContinuationCarriesParams ==
    \A i \in Invs : \A n \in 1..Len(inv[i].cont) :
        /\ inv[i].cont[n].command = "wait"
        /\ inv[i].cont[n].plan = inv[i].event.plan
        /\ inv[i].cont[n].stage = inv[i].event.stage
        /\ inv[i].cont[n].mission_id = inv[i].event.mission_id
        /\ inv[i].cont[n].wait_params = inv[i].recv_params

\* C8 as stated: every finished-state request of an execution started by a
\* stage event with ignore_dependants = true carries ignoreDependencies = true,
\* whether sent by execute_service itself or by wait, in the same or a later
\* invocation.
C8_IgnoreDependantsReachesEndStage ==
    (origin.command = "none" /\ origin.ignore_dependants) =>
        \A i \in Invs : \A n \in 1..Len(inv[i].finished) : inv[i].finished[n]

----------------------------------------------------------------------------
(* SpecChain: one continuation chain.  It starts at invocation count 1; every
   continuation event is delivered exactly once; the callback never returns
   true.  Each invocation runs to its end, and a published event is delivered:
   weak fairness of the next-state relation. *)

InitChain ==
    /\ service \in {svc \in Services : svc.has_cb}
    /\ origin \in {WaitEvent("p", "A", "m1", 1, pd) : pd \in ParamDicts}
    /\ net = {origin}
    /\ inv = [i \in Invs |-> IdleInv]
    /\ server = "Started"
    /\ dispatched = [s \in DownstreamSet |-> 0]
    /\ deliveries = 0
    /\ contTotal = 0
    /\ began = FALSE
    /\ req = IdleReq
    /\ client = IdleClient

NextChain ==
    \/ \E e \in net : Deliver(1, e, TRUE)
    \/ \E el \in 0..TimeLimit : WaitEntry(1, el)
    \/ \E out \in {"false", "transient", "fatal"}, el \in 1..TimeLimit : Poll(1, out, el)
    \/ FailStage(1)
    \/ \E out \in {"ok", "Error"} : Continue(1, out)

SpecChain == InitChain /\ [][NextChain]_vars /\ WF_vars(NextChain)

ChainAtRest == net = {} /\ inv[1].pc = "done"

----------------------------------------------------------------------------
(* SpecRace: a continuation event delivered more than once, so that two wait
   invocations for the same stage and mission run at the same time.  A
   continuation invocation enters wait as it starts (seconds_elapsed 0); the
   retries of a poll, which Spec covers, are left out. *)

RaceService == [has_cb |-> TRUE, sig |-> [args |-> {"job"}, varkw |-> FALSE]]

InitRace ==
    /\ service = RaceService
    /\ origin = WaitEvent("p", "A", "m1", 1, [k \in {"job"} |-> "str:7"])
    /\ net = {origin}
    /\ inv = [i \in Invs |-> IdleInv]
    /\ server = "Started"
    /\ dispatched = [s \in DownstreamSet |-> 0]
    /\ deliveries = 0
    /\ contTotal = 0
    /\ began = FALSE
    /\ req = IdleReq
    /\ client = IdleClient

NextRace ==
    \/ \E i \in Invs, e \in net, consume \in BOOLEAN :
          deliveries < MaxDeliveries /\ Deliver(i, e, consume)
    \/ \E i \in Invs : WaitEntry(i, 0)
    \/ \E i \in Invs, out \in {"true", "false", "fatal"}, el \in 1..TimeLimit :
          Poll(i, out, el)
    \/ \E i \in Invs : FailStage(i)
    \/ \E i \in Invs, resp \in {"server", "ServerError"} : EndStage(i, resp)
    \/ \E i \in Invs, out \in {"ok", "ClientError", "Error"} : Dispatch(i, out)
    \/ \E i \in Invs, out \in {"ok", "Error"} : Continue(i, out)

SpecRace == InitRace /\ [][NextRace]_vars

\* Two wait invocations for the same stage and mission ran at the same time,
\* both callbacks returned true, the server accepted the finished-state
\* request of i and rejected that of j with a ClientError; both have ended.
RaceCase(i, j) ==
    /\ i # j
    /\ PolledTrue(i) /\ PolledTrue(j)
    /\ inv[i].concurrent /\ inv[j].concurrent
    /\ inv[i].event.stage = inv[j].event.stage
    /\ inv[i].event.mission_id = inv[j].event.mission_id
    /\ inv[i].endResp = "ok"
    /\ inv[j].endResp = "ClientError"

\* C7 as stated: in that case every stage of the accepted response's 'next'
\* list is dispatched exactly once in total, and the rejected waiter returns
\* normally.
C7_Original ==
    \A i, j \in Invs :
        RaceCase(i, j) =>
            /\ \A n \in 1..Len(inv[i].next) : dispatched[inv[i].next[n]] = 1
            /\ inv[j].outcome = "returned"

\* C7 (amended): in that case the rejected waiter returns normally without
\* dispatching anything, and every stage of the accepted response's 'next'
\* list is dispatched at most once in total: exactly once unless a dispatch of
\* the accepted waiter raises, which leaves the stages after it undispatched.
C7_RejectedWaiterDispatchesNothing ==
    \A i, j \in Invs :
        RaceCase(i, j) =>
            /\ inv[j].outcome = "returned"
            /\ inv[j].raised = "none"
            /\ inv[j].sent = <<>>
            /\ \A s \in DownstreamSet : dispatched[s] = Count(inv[i].sent, s)
            /\ \A n \in 1..Len(inv[i].next) : dispatched[inv[i].next[n]] <= 1
            /\ ~DispatchRaised(i) =>
                  \A n \in 1..Len(inv[i].next) : dispatched[inv[i].next[n]] = 1

C7_Witness ==
    \E i, j \in Invs :
        /\ RaceCase(i, j)
        /\ inv[i].next = Downstream
        /\ \A s \in DownstreamSet : dispatched[s] = 1
        /\ inv[i].outcome = "returned"
        /\ inv[j].outcome = "returned"

----------------------------------------------------------------------------
(* SpecRequest: one call of InterfaceRequest.request *)

\* the largest retry budget a call is made with
MaxRetry == 3

\* What one requests.request does: it raises ConnectionError ("conn") or
\* ReadTimeout ("timeout"), or returns a response with a status code.
Status(code) == [kind |-> "status", code |-> code]

Responses ==
    { [kind |-> "conn", code |-> 0], [kind |-> "timeout", code |-> 0],
      Status(200), Status(404), Status(429), Status(500), Status(572) }

\* interface.py 64: if response.status_code in (429, 572)
IsBusy_Only429(resp) == resp.kind = "status" /\ resp.code = 429

IsBusy(resp) == resp.kind = "status" /\ resp.code \in {429, 572}

\* interface.py 53, 65: if retry > 0
RetryAllowed_OffByOne(retry) == retry > 1

RetryAllowed_Never(retry) == FALSE

RetryAllowed(retry) == retry > 0

\* interface.py 47-51: except ReadTimeout: if fire_and_forget: return 200, dict()
TimeoutIsSuccess_Always(fire_and_forget) == TRUE

TimeoutIsSuccess(fire_and_forget) == fire_and_forget

Returns(status, body) == [kind |-> "return", status |-> status, body |-> body, error |-> "none"]

Raises(error) == [kind |-> "raise", status |-> 0, body |-> "none", error |-> error]

NoResult == [kind |-> "none", status |-> 0, body |-> "none", error |-> "none"]

\* interface.py 36-98, one pass through the body of request with the
\* arguments (retry, safe, fire_and_forget) of this level of the recursion:
\* "retry" when request sleeps and calls itself, else the result of the call.
RequestStep(resp, retry, safe, fire_and_forget) ==
    CASE resp.kind = "timeout" ->
            IF TimeoutIsSuccess(fire_and_forget) THEN Returns(200, "empty")
                                                 ELSE Raises("ReadTimeout")
      [] resp.kind = "conn" ->
            IF RetryAllowed(retry) THEN NoResult ELSE Raises("HoustonServerError")
      [] IsBusy(resp) ->
            IF RetryAllowed(retry) THEN NoResult ELSE Raises("HoustonServerBusy")
      [] resp.code >= 400 /\ resp.code < 500 /\ ~safe -> Raises("HoustonClientError")
      [] resp.code >= 400 /\ resp.code < 500 /\ safe -> Returns(resp.code, "null")
      [] resp.code >= 500 -> Raises("HoustonServerError")
      [] OTHER -> Returns(resp.code, "json")

\* interface.py 55-56, 67-68: the recursive call passes method, uri, data,
\* retry - 1, fire_and_forget and headers; safe is not passed and takes its
\* default, False.
SafeOfRetry(safe) == FALSE

\* interface.py 55, 67: the budget request passes to itself, retry - 1, after
\* a connection failure and after a busy response alike
RetryLeft_Kept(retry) == retry

RetryLeft(retry) == retry - 1

\* One HTTP attempt of the call and what request does with its outcome; a
\* retry sleeps (time.sleep(random())) before request calls itself.
Attempt(resp) ==
    /\ req.pc = "call"
    /\ LET res == RequestStep(resp, req.retry, req.safe, req.faf)
           r   == [req EXCEPT !.log = Append(@, "http"), !.resps = Append(@, resp)]
       IN  req' = IF res.kind = "none"
                  THEN [r EXCEPT !.log = Append(@, "sleep"),
                                 !.retry = RetryLeft(@),
                                 !.safe = SafeOfRetry(@)]
                  ELSE [r EXCEPT !.pc = "done", !.result = res]
    /\ UNCHANGED <<engineVars, client>>

InitRequest ==
    /\ req \in {[pc |-> "call", retry0 |-> r, retry |-> r, safe0 |-> sf, safe |-> sf,
                  faf |-> ff, log |-> <<>>, resps |-> <<>>, result |-> NoResult] :
                    r \in 0..MaxRetry, sf \in BOOLEAN, ff \in BOOLEAN}
    /\ service = NoCallback
    /\ origin = NoEvent
    /\ net = {}
    /\ inv = [i \in Invs |-> IdleInv]
    /\ server = "NotStarted"
    /\ dispatched = [s \in DownstreamSet |-> 0]
    /\ deliveries = 0
    /\ contTotal = 0
    /\ began = FALSE
    /\ client = IdleClient

NextRequest == \E resp \in Responses : Attempt(resp)

SpecRequest == InitRequest /\ [][NextRequest]_vars

\* a response that reports contention: 429 Too Many Requests, or 572, the
\* Houston API's DagLockedError
IsBusyCode(resp) == resp.code = 429 \/ resp.code = 572

\* the HTTP attempts the call has made
Attempts == Count(req.log, "http")

\* the call has received k busy responses (429 or 572) and nothing else
AllBusy(k) == Len(req.resps) = k /\ \A n \in 1..k : IsBusyCode(req.resps[n])

\* request slept between every two consecutive attempts, and only there
SleptBetweenAttempts ==
    \A n \in 1..Len(req.log) : req.log[n] = (IF n % 2 = 1 THEN "http" ELSE "sleep")

\* C9: for every retry budget r and every k <= r, a request that receives k
\* busy responses (429 or 572) and then a 200 returns the 200 result after
\* exactly k + 1 HTTP attempts, having slept before each re-attempt.
C9_BusyThenOkSucceeds ==
    \A k \in 0..req.retry0 :
        /\ (/\ Len(req.resps) = k + 1
            /\ \A n \in 1..k : IsBusyCode(req.resps[n])
            /\ req.resps[k + 1] = Status(200)) =>
               /\ req.pc = "done"
               /\ req.result = Returns(200, "json")
               /\ Attempts = k + 1
               /\ Len(req.log) = 2 * k + 1
               /\ SleptBetweenAttempts
        \* after k busy responses the request is still under way: it has
        \* slept k times and its next attempt is to come
        /\ (req.pc # "idle" /\ AllBusy(k)) =>
               /\ req.pc = "call"
               /\ req.result = NoResult
               /\ Count(req.log, "sleep") = k

C9_Witness ==
    /\ req.pc = "done"
    /\ req.retry0 >= 2
    /\ Len(req.resps) = req.retry0 + 1
    /\ \A n \in 1..req.retry0 : IsBusyCode(req.resps[n])
    /\ \E n \in 1..req.retry0 : req.resps[n].code = 572
    /\ req.result = Returns(200, "json")
    /\ Count(req.log, "sleep") = req.retry0

\* C10: a request with retry budget r that receives busy responses on all of
\* its r + 1 attempts raises ServerBusy after exactly r + 1 HTTP attempts; it
\* returns no result, raises no ClientError and makes no further attempt.
C10_BusyExhaustedRaisesServerBusy ==
    /\ AllBusy(req.retry0 + 1) =>
          /\ req.pc = "done"
          /\ req.result = Raises("HoustonServerBusy")
          /\ Attempts = req.retry0 + 1
    /\ (\E k \in 0..req.retry0 : AllBusy(k)) => req.pc = "call"

C10_Witness ==
    /\ req.pc = "done"
    /\ req.retry0 >= 1
    /\ AllBusy(req.retry0 + 1)
    /\ req.result.error = "HoustonServerBusy"

\* the call has met k connection failures and nothing else
AllUnreachable(k) ==
    Len(req.resps) = k /\ \A n \in 1..k : req.resps[n].kind = "conn"

\* the error request raises for a 5xx response
ServerErrorOf5xx == RequestStep(Status(500), 0, FALSE, FALSE).error

NonBusy4xx(resp) ==
    resp.kind = "status" /\ resp.code >= 400 /\ resp.code < 500 /\ resp.code # 429

\* every response but the last was retried: a busy status or a connection failure
RetriedThenLast ==
    /\ Len(req.resps) >= 1
    /\ \A n \in 1..(Len(req.resps) - 1) :
          req.resps[n].kind = "conn" \/ IsBusyCode(req.resps[n])

\* C12: for a call made with safe set, a non-busy 4xx response returns
\* (statusCode, null) and raises nothing, on the first attempt and on an
\* attempt made after retried busy responses or connection failures alike.
C12_SafeSurvivesRetries ==
    (/\ req.pc # "idle"
     /\ req.safe0
     /\ RetriedThenLast
     /\ NonBusy4xx(req.resps[Len(req.resps)])) =>
        /\ req.pc = "done"
        /\ req.result = Returns(req.resps[Len(req.resps)].code, "null")

\* C15: a fire-and-forget request whose read times out returns status 200
\* with an empty body, raises nothing and makes no further attempt; a call
\* that is not fire-and-forget never turns a read timeout into a result.
C15_TimeoutIsSuccessOnlyWhenFireAndForget ==
    /\ (req.pc # "idle" /\ Len(req.resps) >= 1
          /\ req.resps[Len(req.resps)].kind = "timeout") =>
            /\ req.pc = "done"
            /\ req.faf => req.result = Returns(200, "empty")
            /\ ~req.faf => req.result = Raises("ReadTimeout")
    /\ (req.pc = "done" /\ req.result = Returns(200, "empty")) =>
            /\ req.faf
            /\ req.resps[Len(req.resps)].kind = "timeout"
    /\ (req.pc = "done" /\ ~req.faf /\ req.result.kind = "return") =>
            req.resps[Len(req.resps)].kind = "status"

C15_Witness ==
    /\ req.pc = "done"
    /\ req.faf
    /\ Len(req.resps) >= 2
    /\ req.resps[Len(req.resps)].kind = "timeout"
    /\ req.result = Returns(200, "empty")

----------------------------------------------------------------------------
(* SpecOperation: one client operation, a method of Houston decorated with *)
(* retry_wrapper whose body makes one call of InterfaceRequest.request      *)

\* client.py 16: retry((HoustonServerBusy, OSError), tries=3, delay=1, backoff=100)
OuterTries == 3

OuterDelay == 1

OuterBackoff == 100

\* client.py 16: the errors the decorator catches.  requests' ReadTimeout is
\* an OSError; HoustonClientError and HoustonServerError are neither.
OuterRetries_All(error) == TRUE

OuterRetries_WithServerError(error) ==
    error \in {"HoustonServerBusy", "ReadTimeout", "HoustonServerError"}

OuterRetries(error) == error \in {"HoustonServerBusy", "ReadTimeout"}

\* the responses an operation's requests meet
OpResponses == Responses \ {Status(572)}

\* One HTTP attempt of the operation.  Inside request a retry sleeps and
\* request calls itself; an error that leaves request and that the decorator
\* catches, with tries left, sleeps the delay, multiplies it by the backoff
\* and calls the method again with its original arguments.
OpAttempt(resp) ==
    /\ req.pc = "call"
    /\ LET res == RequestStep(resp, req.retry, req.safe, req.faf)
           r   == [req EXCEPT !.log = Append(@, "http"), !.resps = Append(@, resp)]
       IN  req' = IF res.kind = "none"
                  THEN [r EXCEPT !.log = Append(@, "sleep"),
                                 !.retry = @ - 1,
                                 !.safe = SafeOfRetry(@)]
                  ELSE IF res.kind = "raise" /\ OuterRetries(res.error) /\ req.tries > 1
                  THEN [r EXCEPT !.log = Append(@, "delay"),
                                 !.delays = Append(@, req.delay),
                                 !.delay = @ * OuterBackoff,
                                 !.tries = @ - 1,
                                 !.retry = req.retry0,
                                 !.safe = req.safe0]
                  ELSE [r EXCEPT !.pc = "done", !.result = res]
    /\ UNCHANGED <<engineVars, client>>

InitOperation ==
    /\ req \in {[pc |-> "call", retry0 |-> r, retry |-> r, safe0 |-> sf, safe |-> sf,
                  faf |-> ff, log |-> <<>>, resps |-> <<>>, result |-> NoResult,
                  tries |-> OuterTries, delay |-> OuterDelay, delays |-> <<>>] :
                    r \in 0..MaxRetry, sf \in BOOLEAN, ff \in BOOLEAN}
    /\ service = NoCallback
    /\ origin = NoEvent
    /\ net = {}
    /\ inv = [i \in Invs |-> IdleInv]
    /\ server = "NotStarted"
    /\ dispatched = [s \in DownstreamSet |-> 0]
    /\ deliveries = 0
    /\ contTotal = 0
    /\ began = FALSE
    /\ client = IdleClient

NextOperation == \E resp \in OpResponses : OpAttempt(resp)

SpecOperation == InitOperation /\ [][NextOperation]_vars

\* the n-th response of the operation is a 5xx status
Is5xx(resp) == resp.kind = "status" /\ resp.code >= 500 /\ resp.code # 572

\* the attempts of the method the decorator has made or begun
OperationAttempts == Count(req.log, "delay") + 1

\* C13: an operation called without safe that receives a non-busy 4xx
\* response raises ClientError and makes no HTTP request after it: neither
\* request nor the decorator retries.  When that response is the first, the
\* operation has made exactly one HTTP request.
C13_ClientErrorNotRetried ==
    ~req.safe0 =>
        \A n \in 1..Len(req.resps) :
            NonBusy4xx(req.resps[n]) =>
                /\ n = Len(req.resps)
                /\ req.pc = "done"
                /\ req.result = Raises("HoustonClientError")
                /\ req.log[Len(req.log)] = "http"
                /\ (n = 1 => Attempts = 1 /\ OperationAttempts = 1)

C13_Witness ==
    /\ ~req.safe0
    /\ req.pc = "done"
    /\ Len(req.resps) = 1
    /\ NonBusy4xx(req.resps[1])
    /\ req.tries = OuterTries

----------------------------------------------------------------------------
(* Plans *)

\* the largest number of stages of a plan
MaxStages == 2

\* The stage names of the plans, in an order every dependency follows: a
\* plan is a DAG, a stage names later stages downstream and earlier ones
\* upstream.  The order of the plan's stage list is any.
StageOrder == <<"A", "B", "C">>

StageNames == Range(StageOrder)

Position(name) == CHOOSE n \in 1..Len(StageOrder) : StageOrder[n] = name

Before(name) == {x \in StageNames : Position(x) < Position(name)}

After(name) == {x \in StageNames : Position(x) > Position(name)}

UpstreamOptions(name) ==
    {Absent, NoneVal, ListOf(<<>>)} \cup {ListOf(<<x>>) : x \in Before(name)}

DownstreamOptions(name) ==
    {Absent, NoneVal, ListOf(<<>>)}
        \cup {StrOf(x) : x \in After(name)}
        \cup {ListOf(<<x>>) : x \in After(name)}
        \cup {ListOf(<<p[1], p[2]>>) :
                  p \in {q \in After(name) \X After(name) : q[1] # q[2]}}

NoParams == [tag |-> "absent", val |-> EmptyDict]

DependencyStages(name) ==
    {[name |-> name, upstream |-> u, downstream |-> d, params |-> NoParams,
      service |-> "absent"] : u \in UpstreamOptions(name), d \in DownstreamOptions(name)}

\* stage lists of n stages with distinct names
StageLists(n) ==
    {l \in [1..n -> UNION {DependencyStages(x) : x \in StageNames}] :
        \A i \in 1..n : \A j \in 1..n : i # j => l[i].name # l[j].name}

NoServices == [tag |-> "none", val |-> <<>>]

DependencyPlans ==
    {[name |-> "plan", stages |-> l, services |-> NoServices] :
        l \in UNION {StageLists(n) : n \in 1..MaxStages}}

\* client.py 421-429: the names the loop collects in has_dependencies
HasDependencies_UpstreamOnly(stages) ==
    {stages[n].name : n \in {m \in 1..Len(stages) :
        stages[m].upstream.tag = "list" /\ Len(stages[m].upstream.val) > 0}}

HasDependencies(stages) ==
    {stages[n].name : n \in {m \in 1..Len(stages) :
        stages[m].upstream.tag \in {"str", "list"} /\ Len(stages[m].upstream.val) > 0}}
      \cup UNION {Range(stages[n].downstream.val) : n \in {m \in 1..Len(stages) :
                    stages[m].downstream.tag \in {"str", "list"}}}

\* client.py 416-431
independent_stages(plan) ==
    LET has_dependencies == HasDependencies(plan.stages)
        Independent(s) == s.name \notin has_dependencies
    IN  SelectSeq(plan.stages, Independent)

IndependentStages ==
    /\ client.pc = "ready"
    /\ client' = [client EXCEPT !.pc = "done", !.op = "independent_stages",
                                !.roots = independent_stages(client.plan)]
    /\ UNCHANGED <<engineVars, req>>

InitPlan ==
    /\ client \in {[pc |-> "ready", plan |-> p, op |-> "none", roots |-> <<>>] :
                      p \in DependencyPlans}
    /\ req = IdleReq
    /\ service = NoCallback
    /\ origin = NoEvent
    /\ net = {}
    /\ inv = [i \in Invs |-> IdleInv]
    /\ server = "NotStarted"
    /\ dispatched = [s \in DownstreamSet |-> 0]
    /\ deliveries = 0
    /\ contTotal = 0
    /\ began = FALSE

NextPlan == IndependentStages

SpecPlan == InitPlan /\ [][NextPlan]_vars

\* the n-th stage of the list has empty or absent upstream and no other
\* stage of the list names it downstream
IsRoot(stages, n) ==
    /\ Len(stages[n].upstream.val) = 0
    /\ \A m \in 1..Len(stages) :
          m # n => stages[n].name \notin Range(stages[m].downstream.val)

\* the positions in big of the elements of the subsequence small, if small
\* is big with some elements left out
IsSubsequenceAt(small, big, keep) ==
    /\ Len(small) = Cardinality(keep)
    /\ \A k \in 1..Len(small) :
          \E n \in keep :
              /\ small[k] = big[n]
              /\ Cardinality({m \in keep : m < n}) = k - 1

\* C16: independent_stages returns exactly the stages that have empty or
\* absent upstream and are named in no other stage's downstream, in the
\* order of the plan's stage list.
C16_IndependentStagesAreRoots ==
    (client.pc = "done" /\ client.op = "independent_stages") =>
        IsSubsequenceAt(client.roots, client.plan.stages,
                        {n \in 1..Len(client.plan.stages) : IsRoot(client.plan.stages, n)})

C16_Witness ==
    /\ client.pc = "done"
    /\ client.op = "independent_stages"
    /\ Len(client.plan.stages) = 2
    /\ Len(client.roots) = 1
    /\ client.roots[1] = client.plan.stages[2]
    /\ client.plan.stages[2].downstream.tag = "str"

----------------------------------------------------------------------------
(* SpecClient: get_stage, get_params and trigger of a client whose plan    *)
(* has a stage "A" and a stage "B"; "Z" names no stage                      *)

\* the parameter names trigger looks for
ParamKeys == {"topic", "topic_key", "psq"}

DictsOver(keys, val) == UNION {[K -> {val}] : K \in SUBSET keys}

\* a plan's value for the 'params' key of a stage: absent, None or a dict
PlanParams ==
    {NoParams, [tag |-> "none", val |-> EmptyDict]}
        \cup {[tag |-> "dict", val |-> d] : d \in DictsOver(ParamKeys, "str:plan")}

\* the trigger methods a service of the model declares; "absent" is a
\* service without a trigger method
Methods ==
    {"http", "pubsub", "PubSub", "google/pubsub", "eventgrid", "azure/event-grid", "kafka"}

\* plan['services']: None, or a list with the service "svc"
ServiceLists ==
    {NoServices}
        \cup {[tag |-> "list", val |-> <<[name |-> "svc", trigger |-> m]>>] :
                  m \in Methods \cup {"absent"}}

\* the stage "A" names no service, the service "svc", or a service "ghost"
\* that the plan does not define
TriggerPlans ==
    {[name |-> "plan",
      stages |-> << [name |-> "A", upstream |-> Absent, downstream |-> StrOf("B"),
                     params |-> pp, service |-> sv],
                    [name |-> "B", upstream |-> Absent, downstream |-> Absent,
                     params |-> NoParams, service |-> "absent"] >>,
      services |-> sl] :
        pp \in PlanParams, sv \in {"absent", "svc", "ghost"}, sl \in ServiceLists}

\* mission.py 38, 64: data["p"] if data["p"] is not None else dict()
ParamsOrEmpty(p) == IF p.tag = "dict" THEN p.val ELSE EmptyDict

\* The mission the server returns to get_mission, as Mission(data) holds it:
\* mission-level params, and the stage "A" with its recorded params or no
\* stage at all.
Missions ==
    {[params |-> ParamsOrEmpty(mp), stages |-> st] :
        mp \in {[tag |-> "none", val |-> EmptyDict]}
                  \cup {[tag |-> "dict", val |-> d] : d \in DictsOver({"topic", "psq"}, "str:mission")},
        st \in {<<>>}
                  \cup {<<[name |-> "A", params |-> ParamsOrEmpty(sp)]>> :
                          sp \in {[tag |-> "none", val |-> EmptyDict]}
                                    \cup {[tag |-> "dict", val |-> d] :
                                            d \in DictsOver(ParamKeys, "str:stage")}}}

\* what a local operation of the client gives back
IsNone == [kind |-> "None"]

Value(v) == [kind |-> "value", val |-> v]

Fails(error) == [kind |-> "raise", error |-> error]

\* client.py 354-365
get_stage_MissingRaises(plan, stage_name) ==
    LET filtered_stages == SelectSeq(plan.stages, LAMBDA st : st.name = stage_name)
    IN  IF Len(filtered_stages) # 1 THEN Fails("ValueError")
        ELSE Value(filtered_stages[1])

get_stage(plan, stage_name) ==
    LET filtered_stages == SelectSeq(plan.stages, LAMBDA st : st.name = stage_name)
    IN  IF Len(filtered_stages) < 1 THEN IsNone
        ELSE IF Len(filtered_stages) > 1 THEN Fails("ValueError")
        ELSE Value(filtered_stages[1])

\* mission.py 67-77
mission_get_stage(mission, stage_name) ==
    LET filtered_stages == SelectSeq(mission.stages, LAMBDA st : st.name = stage_name)
    IN  IF Len(filtered_stages) = 0 THEN IsNone ELSE Value(filtered_stages[1])

\* client.py 385: mission_params.update(this_stage.params)
Update_KeepFirst(d, other) ==
    [k \in (DOMAIN d) \cup (DOMAIN other) |-> IF k \in DOMAIN d THEN d[k] ELSE other[k]]

Update(d, other) ==
    [k \in (DOMAIN d) \cup (DOMAIN other) |-> IF k \in DOMAIN other THEN other[k] ELSE d[k]]

\* client.py 367-398; has_mission is "mission_id is not None", mission what
\* get_mission returns
get_params(plan, mission, stage_name, has_mission) ==
    IF has_mission
    THEN LET this_stage == mission_get_stage(mission, stage_name)
         IN  IF this_stage.kind = "None" THEN IsNone
             ELSE Value(Update(mission.params, this_stage.val.params))
    ELSE LET this_stage == get_stage(plan, stage_name)
         IN  IF this_stage.kind # "value" THEN this_stage
             ELSE Value(ParamsOrEmpty(this_stage.val.params))

\* the requests get_params sends to the server: client.py 379, get_mission
GetParamsRequests(has_mission) == IF has_mission THEN <<"get_mission">> ELSE <<>>

\* client.py 400-414
get_service_from_stage_name(plan, stage_name) ==
    IF plan.services.tag = "none" THEN IsNone
    ELSE LET this_stage == get_stage(plan, stage_name)
         IN  IF this_stage.kind # "value" THEN this_stage
             ELSE IF this_stage.val.service # "absent"
             THEN LET filtered_services ==
                          SelectSeq(plan.services.val,
                                    LAMBDA sv : sv.name = this_stage.val.service)
                  IN  IF Len(filtered_services) < 1 THEN IsNone
                      ELSE Value(filtered_services[1])
             ELSE IsNone

\* str.lower on the method and auth type names of the model
Lower(method) ==
    CASE method = "PubSub" -> "pubsub"
      [] method = "Bearer" -> "bearer"
      [] OTHER -> method

\* client.py 535-543: the trigger method, from the service if the stage has
\* one, else from the parameters.  service['trigger']['method'] raises
\* KeyError for a service without a trigger.
ResolveMethod_ParamsFirst(srv, params) ==
    IF "topic" \in DOMAIN params /\ "topic_key" \in DOMAIN params
    THEN Value("azure/event-grid")
    ELSE IF "psq" \in DOMAIN params \/ "topic" \in DOMAIN params
    THEN Value("google/pubsub")
    ELSE IF srv.kind = "value" /\ srv.val.trigger # "absent"
    THEN Value(Lower(srv.val.trigger))
    ELSE Fails("ValueError")

ResolveMethod(srv, params) ==
    IF srv.kind = "value"
    THEN IF srv.val.trigger = "absent" THEN Fails("KeyError")
         ELSE Value(Lower(srv.val.trigger))
    ELSE IF "topic" \in DOMAIN params /\ "topic_key" \in DOMAIN params
    THEN Value("azure/event-grid")
    ELSE IF "psq" \in DOMAIN params \/ "topic" \in DOMAIN params
    THEN Value("google/pubsub")
    ELSE Fails("ValueError")

\* client.py 545-565: the function trigger hands the data to
Transport(trigger_method) ==
    IF trigger_method \in {"google/pubsub", "pubsub"} THEN Value("pubsub_trigger")
    ELSE IF trigger_method \in {"azure/event-grid", "event-grid", "eventgrid"}
    THEN Value("event_grid_trigger")
    ELSE IF trigger_method \in {"http", "https"} THEN Value("http_trigger")
    ELSE Fails("ValueError")

NotTriggered(error) ==
    [kind |-> "raise", error |-> error, method |-> "none", transport |-> "none"]

\* client.py 525-565 with _validate_message_data (433-448): stage is
\* data.get('stage'), "absent" when the data has none
trigger(plan, mission, stage, has_mission) ==
    IF stage = "absent" THEN NotTriggered("ValueError")
    ELSE
    LET found   == get_params(plan, mission, stage, has_mission)
        params  == IF found.kind = "value" THEN found.val ELSE EmptyDict
        srv     == get_service_from_stage_name(plan, stage)
        method  == ResolveMethod(srv, params)
        via     == Transport(method.val)
    IN  IF found.kind = "raise" THEN NotTriggered(found.error)
        ELSE IF srv.kind = "raise" THEN NotTriggered(srv.error)
        ELSE IF method.kind = "raise" THEN NotTriggered(method.error)
        ELSE IF via.kind = "raise"
        THEN [kind |-> "raise", error |-> via.error, method |-> method.val,
              transport |-> "none"]
        ELSE [kind |-> "called", error |-> "none", method |-> method.val,
              transport |-> via.val]

\* the stage names the operations are called with
AskedNames == {"A", "B", "Z"}

Did(op, arg, has_mission, result, requests) ==
    [client EXCEPT !.pc = "done", !.op = op, !.arg = arg, !.has_mission = has_mission,
                   !.result = result, !.requests = requests]

GetStage(stage_name) ==
    /\ client.pc = "ready"
    /\ client' = Did("get_stage", stage_name, FALSE,
                     get_stage(client.plan, stage_name), <<>>)
    /\ UNCHANGED <<engineVars, req>>

GetParams(stage_name, has_mission) ==
    /\ client.pc = "ready"
    /\ client' = Did("get_params", stage_name, has_mission,
                     get_params(client.plan, client.mission, stage_name, has_mission),
                     GetParamsRequests(has_mission))
    /\ UNCHANGED <<engineVars, req>>

Trigger(stage, has_mission) ==
    /\ client.pc = "ready"
    /\ client' = Did("trigger", stage, has_mission,
                     trigger(client.plan, client.mission, stage, has_mission),
                     IF stage = "absent" THEN <<>> ELSE GetParamsRequests(has_mission))
    /\ UNCHANGED <<engineVars, req>>

InitClient ==
    /\ client \in {[pc |-> "ready", plan |-> p, mission |-> m, op |-> "none",
                     arg |-> "none", has_mission |-> FALSE, result |-> IsNone,
                     requests |-> <<>>] : p \in TriggerPlans, m \in Missions}
    /\ req = IdleReq
    /\ service = NoCallback
    /\ origin = NoEvent
    /\ net = {}
    /\ inv = [i \in Invs |-> IdleInv]
    /\ server = "NotStarted"
    /\ dispatched = [s \in DownstreamSet |-> 0]
    /\ deliveries = 0
    /\ contTotal = 0
    /\ began = FALSE

NextClient ==
    \/ \E n \in AskedNames : GetStage(n)
    \/ \E n \in AskedNames, hm \in BOOLEAN : GetParams(n, hm)
    \/ \E n \in AskedNames \cup {"absent"}, hm \in BOOLEAN : Trigger(n, hm)

SpecClient == InitClient /\ [][NextClient]_vars

PlanStageNames == {client.plan.stages[n].name : n \in 1..Len(client.plan.stages)}

MissionStageNames == {client.mission.stages[n].name : n \in 1..Len(client.mission.stages)}

\* C17: for a stage name that is not in the plan, get_stage and get_params
\* without a mission ID return None; for a stage name that is not in the
\* fetched mission, get_params with a mission ID returns None.  None of
\* them raises.
C17_MissingStageIsNone ==
    /\ (client.pc = "done" /\ client.op = "get_stage"
          /\ client.arg \notin PlanStageNames) => client.result = IsNone
    /\ (client.pc = "done" /\ client.op = "get_params" /\ ~client.has_mission
          /\ client.arg \notin PlanStageNames) => client.result = IsNone
    /\ (client.pc = "done" /\ client.op = "get_params" /\ client.has_mission
          /\ client.arg \notin MissionStageNames) => client.result = IsNone

C17_Witness ==
    /\ client.pc = "done"
    /\ client.op = "get_params"
    /\ client.has_mission
    /\ client.arg = "B"
    /\ client.arg \notin MissionStageNames
    /\ client.result = IsNone

DeclaredMethod ==
    IF \E n \in 1..Len(client.plan.stages) : \E k \in 1..Len(client.plan.services.val) :
          /\ client.plan.stages[n].name = client.arg
          /\ client.plan.services.val[k].name = client.plan.stages[n].service
          /\ client.plan.services.val[k].trigger # "absent"
    THEN client.plan.services.val[1].trigger
    ELSE "none"

\* the parameters trigger resolves for the stage: the mission's when the
\* event has a mission ID, else the plan's; none if the stage is not found
ResolvedParams ==
    LET found == get_params(client.plan, client.mission, client.arg, client.has_mission)
    IN  IF found.kind = "value" THEN found.val ELSE EmptyDict

PubSubNames == {"pubsub", "PubSub", "google/pubsub"}

EventGridNames == {"eventgrid", "event-grid", "azure/event-grid"}

\* C19: when the service of the triggered stage declares a trigger method,
\* trigger uses it whatever the parameters hold: a declared pubsub service
\* is dispatched through Pub/Sub, a declared event-grid service through
\* Event Grid, an http service through HTTP.
C19_DeclaredMethodWins ==
    (client.pc = "done" /\ client.op = "trigger" /\ DeclaredMethod # "none") =>
        /\ DeclaredMethod \in PubSubNames =>
              client.result.kind = "called" /\ client.result.transport = "pubsub_trigger"
        /\ DeclaredMethod \in EventGridNames =>
              client.result.kind = "called" /\ client.result.transport = "event_grid_trigger"
        /\ DeclaredMethod = "http" =>
              client.result.kind = "called" /\ client.result.transport = "http_trigger"

C19_Witness ==
    /\ client.pc = "done"
    /\ client.op = "trigger"
    /\ DeclaredMethod = "eventgrid"
    /\ client.has_mission
    /\ DOMAIN ResolvedParams = {"psq", "topic"}
    /\ client.result.transport = "event_grid_trigger"

\* C20: trigger resolves the transport in this order: the declared method of
\* the stage's service if it declares one; otherwise Event Grid if the
\* resolved parameters hold both topic and topic_key; otherwise Pub/Sub if
\* they hold psq or topic; otherwise it fails and dispatches nothing.
C20_ResolutionOrder ==
    (client.pc = "done" /\ client.op = "trigger" /\ client.arg # "absent") =>
        IF DeclaredMethod # "none"
        THEN client.result.method = Lower(DeclaredMethod)
        ELSE IF {"topic", "topic_key"} \subseteq DOMAIN ResolvedParams
        THEN client.result.kind = "called" /\ client.result.transport = "event_grid_trigger"
        ELSE IF "psq" \in DOMAIN ResolvedParams \/ "topic" \in DOMAIN ResolvedParams
        THEN client.result.kind = "called" /\ client.result.transport = "pubsub_trigger"
        ELSE /\ client.result.kind = "raise"
             /\ client.result.error = "ValueError"
             /\ client.result.transport = "none"

----------------------------------------------------------------------------
(* Spec: trigger_all and the order of execute_service *)

\* the n-th dispatch of invocation i carries the n-th stage of the list, the
\* mission of the event and the client's plan name
CarriesMission(i, n) ==
    /\ inv[i].payloads[n].stage = inv[i].respNext.val[n]
    /\ inv[i].payloads[n].mission_id = inv[i].event.mission_id
    /\ inv[i].payloads[n].plan = inv[i].event.plan

\* trigger_all ran to its end without a dispatch raising
AllDispatched(i) ==
    inv[i].pc = "done" /\ inv[i].endResp = "ok" /\ inv[i].todo = <<>>

\* C24: when every dispatch succeeds, trigger_all makes exactly one dispatch
\* per listed stage, in list order, each carrying the mission ID and the
\* client's plan name; a null list yields no dispatch and no error.
C24_TriggerAllOnePerStage ==
    \A i \in Invs :
        /\ Len(inv[i].payloads) = Len(inv[i].sent)
        /\ AllDispatched(i) =>
              /\ inv[i].outcome = "returned" /\ inv[i].raised = "none"
              /\ inv[i].respNext.tag = "none" => inv[i].payloads = <<>>
              /\ inv[i].respNext.tag = "list" =>
                    /\ Len(inv[i].payloads) = Len(inv[i].respNext.val)
                    /\ \A n \in 1..Len(inv[i].payloads) : CarriesMission(i, n)

C24_Witness ==
    \E i \in Invs :
        /\ AllDispatched(i)
        /\ inv[i].respNext = ListOf(Downstream)
        /\ Len(inv[i].payloads) = 2
        /\ inv[i].payloads[1].stage = "B" /\ inv[i].payloads[2].stage = "C"
        /\ inv[i].payloads[2].mission_id = "m1"

\* func raised in invocation i
FuncRaised(i) == inv[i].err = "FuncError"

PlainStage(i) ==
    inv[i].pc # "idle" /\ inv[i].event.command = "none" /\ ~service.has_cb

\* the requests of invocation i so far follow the order start_stage, func,
\* end_stage, trigger ..., each step only after the one before it succeeded
InOrder(i) ==
    LET c == inv[i].calls
    IN  /\ Len(c) >= 1 => c[1] = "start_stage"
        /\ Len(c) >= 2 => c[2] = "func" /\ inv[i].startResp = "ok"
        /\ Len(c) >= 3 =>
              \/ c[3] = "end_stage" /\ inv[i].err = "none"
              \/ c[3] = "fail_stage" /\ inv[i].err = "FuncError" /\ Len(c) = 3
        /\ \A n \in 4..Len(c) : c[n] = "trigger" /\ inv[i].endResp = "ok"

\* C28 as stated: in that order, and the stages dispatched are exactly those
\* of the response's 'next' list.
C28_Original ==
    \A i \in Invs :
        (PlainStage(i) /\ inv[i].pc = "done" /\ inv[i].endResp = "ok") =>
            /\ InOrder(i)
            /\ inv[i].sent = StagesToTrigger(inv[i].respNext)

\* C28 (amended): the started-state request is accepted, then func runs, the
\* finished-state request is sent only after func returned, downstream stages
\* are dispatched only after it succeeded; the stages dispatched are those of
\* the 'next' list in order, all of them when the invocation returns, and
\* the ones up to a dispatch that raised otherwise.
C28_OrderOfExecuteService ==
    \A i \in Invs :
        PlainStage(i) =>
            /\ InOrder(i)
            /\ inv[i].sent # <<>> =>
                  /\ inv[i].respNext.tag = "list"
                  /\ IsPrefix(inv[i].sent, inv[i].respNext.val)
            /\ (inv[i].pc = "done" /\ inv[i].endResp = "ok"
                   /\ inv[i].outcome = "returned") =>
                  inv[i].sent = (IF inv[i].respNext.tag = "list"
                                 THEN inv[i].respNext.val ELSE <<>>)
            /\ (inv[i].pc = "done" /\ inv[i].endResp = "ok"
                   /\ inv[i].outcome = "raised") =>
                  Len(inv[i].sent) >= 1

C28_Witness ==
    \E i \in Invs :
        /\ PlainStage(i)
        /\ inv[i].pc = "done"
        /\ inv[i].outcome = "returned"
        /\ inv[i].calls = <<"start_stage", "func", "end_stage", "trigger", "trigger">>
        /\ inv[i].sent = Downstream

\* C29: an event carrying a recognised command makes execute_service run
\* only that command: start_stage is not called and func is not executed in
\* that invocation, and a continuation resumes polling.
C29_CommandRunsAlone ==
    \A i \in Invs :
        (inv[i].pc # "idle" /\ inv[i].event.command # "none") =>
            /\ inv[i].startResp = "none"
            /\ \A n \in 1..Len(inv[i].calls) :
                  inv[i].calls[n] \notin {"start_stage", "func"}
            /\ inv[i].pc \notin {"start", "func"}
            /\ inv[i].event.command = "wait" => inv[i].engine
            /\ (inv[i].event.command = "skip" /\ inv[i].pc = "done") =>
                  inv[i].calls = <<"skip_stage">>

C29_Witness ==
    \E i \in Invs :
        /\ inv[i].event.command = "wait"
        /\ inv[i].pc = "done"
        /\ inv[i].outcome = "returned"
        /\ inv[i].polls >= 1
        /\ inv[i].calls = <<"end_stage", "trigger", "trigger">>

\* the attempts of the latest poll of invocation i, and the last of them
LastAttempt(i) == inv[i].attempts[Len(inv[i].attempts)]

FailedStage(i) ==
    \E n \in 1..Len(inv[i].calls) : inv[i].calls[n] = "fail_stage"

\* fail_stage was called and the error err left the invocation, or is about to
FailsWith(i, err) ==
    /\ inv[i].err = err
    /\ \/ inv[i].pc = "fail" /\ ~FailedStage(i)
       \/ /\ inv[i].pc = "done" /\ FailedStage(i)
          /\ inv[i].outcome = "raised" /\ inv[i].raised = err

\* C30: each poll of the wait callback is retried on transient failures up
\* to 3 attempts: at most two transient failures followed by a value do not
\* cause fail_stage; three transient failures in a row, or one non-transient
\* error, cause fail_stage and the error propagates.
C30_PollRetriedThreeTimes ==
    \A i \in Invs :
        inv[i].attempts # <<>> =>
            /\ Len(inv[i].attempts) <= WaitRetryTries
            /\ \A n \in 1..(Len(inv[i].attempts) - 1) : inv[i].attempts[n] = "transient"
            /\ LastAttempt(i) \in {"true", "false"} =>
                  /\ ~FailedStage(i)
                  /\ inv[i].err = "none"
                  /\ inv[i].wait_res = (LastAttempt(i) = "true")
            /\ (LastAttempt(i) = "transient" /\ Len(inv[i].attempts) < WaitRetryTries) =>
                  /\ inv[i].pc = "poll"
                  /\ ~FailedStage(i)
                  /\ inv[i].err = "none"
            /\ (LastAttempt(i) = "transient" /\ Len(inv[i].attempts) = WaitRetryTries) =>
                  FailsWith(i, "OSError")
            /\ LastAttempt(i) = "fatal" => FailsWith(i, "CallbackError")

C30_Witness ==
    \E i \in Invs :
        /\ inv[i].attempts = <<"transient", "transient", "true">>
        /\ inv[i].pc = "done"
        /\ inv[i].outcome = "returned"
        /\ ~FailedStage(i)

\* three transient failures in a row failed the stage
C30_WitnessExhausted ==
    \E i \in Invs :
        /\ inv[i].attempts = <<"transient", "transient", "transient">>
        /\ inv[i].pc = "done"
        /\ FailedStage(i)
        /\ inv[i].raised = "OSError"

----------------------------------------------------------------------------
(* SpecStart: a stage event delivered more than once, so that two invocations
   of execute_service for the same stage and mission run at the same time
   against a server that arbitrates the stage state atomically.  The service
   has no wait callback. *)

InitStart ==
    /\ service = NoCallback
    /\ origin \in {StageEvent(d, FALSE) : d \in BOOLEAN}
    /\ net = {origin}
    /\ inv = [i \in Invs |-> IdleInv]
    /\ server = "NotStarted"
    /\ dispatched = [s \in DownstreamSet |-> 0]
    /\ deliveries = 0
    /\ contTotal = 0
    /\ began = FALSE
    /\ req = IdleReq
    /\ client = IdleClient

NextStart ==
    \/ \E i \in Invs, e \in net, consume \in BOOLEAN :
          deliveries < MaxDeliveries /\ Deliver(i, e, consume)
    \/ \E i \in Invs, resp \in {"server", "ServerError"} : StartStage(i, resp)
    \/ \E i \in Invs : FuncReturns(i, EmptyDict)
    \/ \E i \in Invs : FuncRaises(i)
    \/ \E i \in Invs : FailStage(i)
    \/ \E i \in Invs, resp \in {"server", "ServerError"} : EndStage(i, resp)
    \/ \E i \in Invs, out \in {"ok", "ClientError", "Error"} : Dispatch(i, out)

SpecStart == InitStart /\ [][NextStart]_vars

\* func is running or has run in invocation i
RanFunc(i) ==
    inv[i].pc = "func" \/ \E n \in 1..Len(inv[i].calls) : inv[i].calls[n] = "func"

\* the started-state request of invocation i was rejected with a ClientError
StartRejected(i) == inv[i].startResp = "HoustonClientError"

\* i and j handle the same stage of the same mission and ran at the same time
SameStageConcurrently(i, j) ==
    /\ i # j
    /\ inv[i].pc # "idle" /\ inv[j].pc # "idle"
    /\ inv[i].concurrent /\ inv[j].concurrent
    /\ inv[i].event.stage = inv[j].event.stage
    /\ inv[i].event.mission_id = inv[j].event.mission_id

\* C26: if start_stage is rejected with a ClientError, execute_service
\* returns without executing func and without calling end_stage, fail_stage
\* or any trigger; so of two concurrent invocations for the same stage and
\* mission, against a server that accepts only one start, at most one
\* executes func.
C26_RejectedStartRunsNothing ==
    /\ \A i \in Invs :
          /\ StartRejected(i) =>
                /\ inv[i].pc = "done"
                /\ inv[i].outcome = "returned" /\ inv[i].raised = "none"
                /\ inv[i].calls = <<"start_stage">>
                /\ inv[i].sent = <<>> /\ inv[i].finished = <<>>
          /\ RanFunc(i) => inv[i].startResp = "ok"
    /\ \A i, j \in Invs :
          SameStageConcurrently(i, j) =>
              /\ ~(inv[i].startResp = "ok" /\ inv[j].startResp = "ok") =>
                    ~(RanFunc(i) /\ RanFunc(j))
              /\ (~FailedStage(i) /\ ~FailedStage(j)) =>
                    ~(RanFunc(i) /\ RanFunc(j))

C26_Witness ==
    \E i, j \in Invs :
        /\ SameStageConcurrently(i, j)
        /\ inv[i].pc = "done" /\ inv[j].pc = "done"
        /\ RanFunc(i) /\ inv[i].outcome = "returned"
        /\ StartRejected(j) /\ inv[j].calls = <<"start_stage">>
        /\ server = "Finished"

----------------------------------------------------------------------------
(* SpecDispatch: a client is constructed and one stage is dispatched through
   trigger to the HTTP or the Pub/Sub transport.  A key a mapping lacks, and
   a value that is None, are written "absent". *)

\* the name of the plan the client holds
PlanName == "p"

\* client.py 67-73: the error of get_plan after which the string is taken
\* for the path of a file
FallsBackToFile_Always(error) == TRUE

FallsBackToFile(error) == error = "HoustonClientError"

Constructed(trace, source) ==
    [kind |-> "client", error |-> "none", trace |-> trace, source |-> source]

ConstructFails(trace, error) ==
    [kind |-> "raise", error |-> error, trace |-> trace, source |-> "none"]

\* client.py 67-73 with load_plan (86-96): Houston(plan).  answer is what
\* get_plan meets ("ok" or the error it raises), file_exists whether a file
\* of that name is there.
Construct(plan_arg, answer, file_exists) ==
    IF plan_arg = "mapping" THEN Constructed(<<>>, "mapping")
    ELSE IF answer = "ok" THEN Constructed(<<"get_plan">>, "server")
    ELSE IF ~FallsBackToFile(answer) THEN ConstructFails(<<"get_plan">>, answer)
    ELSE IF file_exists THEN Constructed(<<"get_plan", "load_plan">>, "file")
    ELSE ConstructFails(<<"get_plan", "load_plan">>, "HoustonPlanNotFound")

\* client.py 436-438, 446-447: _validate_message_data leaves the caller's
\* keys alone and adds the plan name when the data has no plan
Payload_Overwrites(data, plan_name) == WithKey(data, "plan", plan_name)

Payload(data, plan_name) ==
    IF "plan" \in DOMAIN data THEN data ELSE WithKey(data, "plan", plan_name)

\* the data trigger is called with
TriggerData ==
    UNION {[keys -> {"A"}] : keys \in SUBSET {"stage"}}

DataWith(d, key, values) ==
    {d} \cup {WithKey(d, key, v) : v \in values}

TriggerInputs ==
    UNION {DataWith(d3, "note", {"x"}) :
             d3 \in UNION {DataWith(d2, "plan", {"p", "q"}) :
                      d2 \in UNION {DataWith(d1, "mission_id", {"m1"}) :
                               d1 \in TriggerData}}}

\* the auth maps a client is made with: service name -> entry, the entry
\* written as its token ("absent": the entry has no token)
AuthMaps == UNION {[names -> {"absent", "", "tok"}] : names \in SUBSET {"svcA", "svcB"}}

\* client.py 497-498: token is None or token == ""
TokenMissing_OnlyAbsent(token) == token = "absent"

TokenMissing(token) == token = "absent" \/ token = ""

NoAuth(name) == [kind |-> "raise", error |-> "ValueError", names |-> name, val |-> <<>>]

\* client.py 474-511: the headers of the POST, or the ValueError that names
\* the service
Headers(cfg, auth) ==
    IF cfg.auth = "absent" THEN [kind |-> "value", error |-> "none", names |-> "none", val |-> <<>>]
    ELSE IF cfg.name \notin DOMAIN auth THEN NoAuth(cfg.name)
    ELSE IF Lower(cfg.auth) = "bearer"
    THEN IF TokenMissing(auth[cfg.name]) THEN NoAuth(cfg.name)
         ELSE [kind |-> "value", error |-> "none", names |-> "none",
               val |-> <<"Bearer", auth[cfg.name]>>]
    ELSE NoAuth(cfg.name)

\* A topic is written as the list topic.split("/") gives; None is NoTopic.
NoTopic == <<>>

Qualified(project, topic) == <<"projects", project, "topics", topic>>

TopicStrings ==
    {<<"t">>, Qualified("emb", "t"), Qualified(" ", "t"), <<"x", "emb", "topics", "t">>}

\* gcp/client.py 69: project.strip() == ""
Blank(project) == project \in {"", " "}

NoService ==
    [method |-> "none", declared |-> FALSE, name |-> "none", auth |-> "absent",
     topic |-> NoTopic, project |-> "absent", ptopic |-> NoTopic, psq |-> NoTopic,
     topic_key |-> "absent", pkey |-> "absent"]

\* the service of the stage and, without a service, the stage's parameters
HttpServices ==
    {[NoService EXCEPT !.method = "http", !.declared = TRUE, !.name = "svcA", !.auth = a] :
        a \in {"absent", "bearer", "Bearer", "basic"}}

PubsubServices ==
    {[NoService EXCEPT !.method = "pubsub", !.declared = TRUE, !.name = "svcA",
                       !.topic = t, !.project = p] :
        t \in TopicStrings \cup {NoTopic}, p \in {"absent", "", " ", "sp"}}
    \cup
    {[NoService EXCEPT !.method = "pubsub", !.ptopic = pq[1], !.psq = pq[2]] :
        pq \in {<<<<"t">>, NoTopic>>, <<NoTopic, <<"q">>>>, <<<<"t">>, <<"q">>>>,
                <<Qualified("emb", "t"), NoTopic>>}}

\* a service whose trigger declares Event Grid, and a stage without a
\* service whose parameters hold topic and topic_key
EventGridServices ==
    {[NoService EXCEPT !.method = "eventgrid", !.declared = TRUE, !.name = "svcA",
                       !.topic = <<"host1">>, !.topic_key = "key1"],
     [NoService EXCEPT !.method = "eventgrid", !.ptopic = <<"host2">>, !.pkey = "key2"]}

\* client.py 535-543: the method of the stage's service, else the one the
\* parameters imply
TriggerMethod(cfg) ==
    IF cfg.declared THEN cfg.method
    ELSE IF cfg.ptopic # NoTopic /\ cfg.pkey # "absent" THEN "eventgrid"
    ELSE IF cfg.psq # NoTopic \/ cfg.ptopic # NoTopic THEN "pubsub"
    ELSE "none"

\* plugin/azure.py 31: retry((HoustonServerError, HoustonServerBusy, OSError,
\* HttpOperationError), tries=3, delay=1, backoff=2)
AzureTries == 3

AzureRetries(error) ==
    error \in {"HoustonServerError", "HoustonServerBusy", "OSError", "HttpOperationError"}

\* plugin/azure.py 43-54: the topic and key event_grid_trigger publishes
\* with, read from the trigger of the stage's service
NoEventGridTarget ==
    [kind |-> "raise", error |-> "ValueError", topic |-> NoTopic, key |-> "absent"]

EventGridTarget(cfg) ==
    IF ~cfg.declared THEN NoEventGridTarget
    ELSE [kind |-> "value", error |-> "none", topic |-> cfg.topic, key |-> cfg.topic_key]

\* client.project, or the environment's GCP_PROJECT / PROJECT_ID
DefaultProjects == {"absent", " ", "dp"}

\* gcp/client.py 35-38: the project of the service's trigger, when it is truthy
ServiceProject(cfg) ==
    IF cfg.declared /\ cfg.project \notin {"absent", ""} THEN cfg.project ELSE "absent"

\* gcp/client.py 41-48
ChosenTopic(cfg) ==
    IF cfg.declared THEN cfg.topic
    ELSE IF cfg.ptopic # NoTopic THEN cfg.ptopic
    ELSE cfg.psq

\* gcp/client.py 56
IsQualified(sections) ==
    Len(sections) = 4 /\ sections[1] = "projects" /\ sections[3] = "topics"

PublishTo(project, topic) ==
    [kind |-> "value", error |-> "none", val |-> [project |-> project, topic |-> topic]]

NoTarget == [kind |-> "raise", error |-> "ValueError", val |-> [project |-> "none", topic |-> NoTopic]]

\* gcp/client.py 35-82: the topic pubsub_trigger publishes to
PubsubTarget_ServiceFirst(cfg, default) ==
    LET topic == ChosenTopic(cfg)
        found == ServiceProject(cfg)
        project == IF found # "absent" THEN found
                   ELSE IF IsQualified(topic) THEN topic[2] ELSE default
    IN  IF topic = NoTopic THEN NoTarget
        ELSE IF project = "absent" \/ Blank(project) THEN NoTarget
        ELSE PublishTo(project, IF IsQualified(topic) THEN <<topic[4]>> ELSE topic)

PubsubTarget(cfg, default) ==
    LET topic == ChosenTopic(cfg)
        found == IF IsQualified(topic) THEN topic[2] ELSE ServiceProject(cfg)
        project == IF found = "absent" THEN default ELSE found
    IN  IF topic = NoTopic THEN NoTarget
        ELSE IF project = "absent" \/ Blank(project) THEN NoTarget
        ELSE PublishTo(project, IF IsQualified(topic) THEN <<topic[4]>> ELSE topic)

\* gcp/client.py 19: retry((HoustonServerError, HoustonServerBusy, OSError,
\* GoogleAPIError), tries=3, delay=1, backoff=2)
GcpTries == 3

GcpRetries(error) ==
    error \in {"HoustonServerError", "HoustonServerBusy", "OSError", "GoogleAPIError"}

NewClient(plan_arg, answer, file_exists) ==
    [pc |-> "new", plan_arg |-> plan_arg, answer |-> answer, file_exists |-> file_exists,
     trace |-> <<>>, source |-> "none", error |-> "none",
     cfg |-> NoService, auth |-> [n \in {} |-> "absent"], default |-> "absent",
     data |-> EmptyDict, payload |-> EmptyDict, attempts |-> 0,
     lookups |-> <<>>, posts |-> <<>>, publishes |-> <<>>, names |-> "none",
     events |-> <<>>]

\* Houston(plan, auth=...)
ConstructClient ==
    /\ client.pc = "new"
    /\ LET c == Construct(client.plan_arg, client.answer, client.file_exists)
       IN  client' = [client EXCEPT !.pc = IF c.kind = "raise" THEN "failed" ELSE "ready",
                                    !.trace = c.trace,
                                    !.source = c.source,
                                    !.error = c.error]
    /\ UNCHANGED <<engineVars, req>>

\* client.py 525-565: trigger(data).  _validate_message_data raises for data
\* without a stage, reads the stage's parameters (from the server's mission
\* when the data has a mission_id) and names the plan in data that has none;
\* the service's method, or the parameters, select the transport.
TriggerCall(cfg, auth, default, data) ==
    /\ client.pc = "ready"
    /\ client' = IF "stage" \notin DOMAIN data
                  THEN [client EXCEPT !.pc = "done", !.data = data, !.error = "ValueError"]
                  ELSE [client EXCEPT !.pc = TriggerMethod(cfg), !.cfg = cfg, !.auth = auth,
                                      !.default = default, !.data = data,
                                      !.lookups = GetParamsRequests("mission_id" \in DOMAIN data),
                                      !.payload = Payload(data, PlanName)]
    /\ UNCHANGED <<engineVars, req>>

\* client.py 450-523: one attempt of http_trigger under retry_wrapper.  out is
\* what the POST does: "ok", or the error request raises.
HttpAttempt(out) ==
    /\ client.pc = "http"
    /\ LET h == Headers(client.cfg, client.auth)
           c == [client EXCEPT !.attempts = @ + 1]
           p == [c EXCEPT !.posts = Append(@, [body |-> c.payload, headers |-> h.val])]
       IN  client' =
             IF h.kind = "raise"
             THEN [c EXCEPT !.pc = "done", !.error = h.error, !.names = h.names]
             ELSE IF out = "ok" THEN [p EXCEPT !.pc = "done"]
             ELSE IF OuterRetries(out) /\ p.attempts < OuterTries THEN p
             ELSE [p EXCEPT !.pc = "done", !.error = out]
    /\ UNCHANGED <<engineVars, req>>

\* gcp/client.py 22-91: one attempt of pubsub_trigger under its retry_wrapper.
\* out is what the publish does: "ok", NotFound (raised as a ValueError) or a
\* GoogleAPIError.
PubsubAttempt(out) ==
    /\ client.pc = "pubsub"
    /\ LET t == PubsubTarget(client.cfg, client.default)
           c == [client EXCEPT !.attempts = @ + 1,
                               !.lookups = @ \o GetParamsRequests("mission_id" \in DOMAIN client.data),
                               !.payload = Payload(@, PlanName)]
           p == [c EXCEPT !.publishes = Append(@, [body |-> c.payload, target |-> t.val])]
       IN  client' =
             IF t.kind = "raise" THEN [c EXCEPT !.pc = "done", !.error = t.error]
             ELSE IF out = "ok" THEN [p EXCEPT !.pc = "done"]
             ELSE IF out = "NotFound" THEN [p EXCEPT !.pc = "done", !.error = "ValueError"]
             ELSE IF GcpRetries(out) /\ p.attempts < GcpTries THEN p
             ELSE [p EXCEPT !.pc = "done", !.error = out]
    /\ UNCHANGED <<engineVars, req>>

\* plugin/azure.py 33-54 and 69-91: one attempt of event_grid_trigger under
\* its retry_wrapper.  out is what publish_events does: "ok" or an
\* HttpOperationError.
EventGridAttempt(out) ==
    /\ client.pc = "eventgrid"
    /\ LET t == EventGridTarget(client.cfg)
           c == [client EXCEPT !.attempts = @ + 1,
                               !.payload = Payload(@, PlanName)]
           p == [c EXCEPT !.events = Append(@, [topic |-> t.topic, key |-> t.key,
                                                  data |-> c.payload])]
       IN  client' =
             IF t.kind = "raise" THEN [c EXCEPT !.pc = "done", !.error = t.error]
             ELSE IF out = "ok" THEN [p EXCEPT !.pc = "done"]
             ELSE IF AzureRetries(out) /\ p.attempts < AzureTries THEN p
             ELSE [p EXCEPT !.pc = "done", !.error = out]
    /\ UNCHANGED <<engineVars, req>>

InitDispatch ==
    /\ client \in {NewClient("mapping", "ok", FALSE)}
                   \cup {NewClient("string", a, f) :
                            a \in {"ok", "HoustonClientError", "HoustonServerError"},
                            f \in BOOLEAN}
    /\ req = IdleReq
    /\ service = NoCallback
    /\ origin = NoEvent
    /\ net = {}
    /\ inv = [i \in Invs |-> IdleInv]
    /\ server = "NotStarted"
    /\ dispatched = [s \in DownstreamSet |-> 0]
    /\ deliveries = 0
    /\ contTotal = 0
    /\ began = FALSE

NextDispatch ==
    \/ ConstructClient
    \/ /\ client.pc = "ready"
       /\ \E cfg \in HttpServices, auth \in AuthMaps, data \in TriggerInputs :
             TriggerCall(cfg, auth, "absent", data)
    \/ /\ client.pc = "ready"
       /\ \E cfg \in PubsubServices, default \in DefaultProjects, data \in TriggerInputs :
             TriggerCall(cfg, [n \in {} |-> "absent"], default, data)
    \/ \E out \in {"ok", "HoustonServerBusy", "HoustonServerError"} : HttpAttempt(out)
    \/ \E out \in {"ok", "NotFound", "GoogleAPIError"} : PubsubAttempt(out)
    \/ /\ client.pc = "ready"
       /\ \E cfg \in EventGridServices, data \in TriggerInputs :
             TriggerCall(cfg, [n \in {} |-> "absent"], "absent", data)
    \/ \E out \in {"ok", "HttpOperationError"} : EventGridAttempt(out)

SpecDispatch == InitDispatch /\ [][NextDispatch]_vars

\* trigger was called with data that names a stage and has made an attempt
Dispatching(method) ==
    client.pc \in {"http", "pubsub", "done"} /\ client.cfg.method = method
    /\ client.attempts >= 1

\* the service of the stage requires auth and the client's auth map has no
\* entry or no non-empty token for its name, or the auth type is unsupported
AuthUnusable ==
    /\ client.cfg.auth # "absent"
    /\ \/ client.cfg.name \notin DOMAIN client.auth
       \/ client.auth[client.cfg.name] \in {"absent", ""}
       \/ client.cfg.auth \notin {"bearer", "Bearer"}

\* C21: an HTTP trigger to a service that declares an auth requirement the
\* client cannot meet fails with a configuration error naming the service
\* before any request is issued, and the dispatch is not retried.
C21_MissingAuthFailsBeforeRequest ==
    Dispatching("http") =>
        /\ AuthUnusable =>
              /\ client.pc = "done"
              /\ client.error = "ValueError"
              /\ client.names = client.cfg.name
              /\ client.posts = <<>>
              /\ client.attempts = 1
              /\ client.lookups = GetParamsRequests("mission_id" \in DOMAIN client.data)
        /\ ~AuthUnusable =>
              /\ client.posts # <<>>
              /\ client.names = "none"
              /\ \A n \in 1..Len(client.posts) :
                    client.posts[n].headers =
                        (IF client.cfg.auth = "absent" THEN <<>>
                         ELSE <<"Bearer", client.auth[client.cfg.name]>>)

\* the auth map has a token for another service only
C21_Witness ==
    /\ Dispatching("http")
    /\ client.cfg.auth = "Bearer"
    /\ DOMAIN client.auth = {"svcB"}
    /\ client.auth["svcB"] = "tok"
    /\ client.pc = "done"
    /\ client.error = "ValueError"
    /\ client.posts = <<>>

\* the bodies handed to a transport so far
Bodies ==
    {client.posts[n].body : n \in 1..Len(client.posts)}
    \cup {client.publishes[n].body : n \in 1..Len(client.publishes)}

\* C22: the payload delivered to the transport contains stage and plan, and
\* equals the caller's data with plan set to the client's plan name only
\* when the caller omitted it: every caller-supplied key passes through
\* unchanged and no other key is added.
C22_PayloadPassesThrough ==
    \A body \in Bodies :
        /\ "stage" \in DOMAIN body /\ "plan" \in DOMAIN body
        /\ DOMAIN body = DOMAIN client.data \cup {"plan"}
        /\ \A k \in DOMAIN client.data : body[k] = client.data[k]
        /\ "plan" \notin DOMAIN client.data => body["plan"] = PlanName

C22_Witness ==
    /\ client.pc = "done"
    /\ client.error = "none"
    /\ DOMAIN client.data = {"stage", "mission_id", "plan", "note"}
    /\ client.data["plan"] = "q"
    /\ Len(client.publishes) = 1
    /\ client.publishes[1].body = client.data

\* the caller omitted plan and the transport received the client's plan name
C22_WitnessPlanAdded ==
    /\ client.pc = "done"
    /\ client.error = "none"
    /\ DOMAIN client.data = {"stage", "mission_id"}
    /\ Len(client.posts) = 1
    /\ client.posts[1].body = WithKey(client.data, "plan", PlanName)

\* the project in priority order: the one embedded in a fully-qualified
\* topic, else the one of the service's trigger, else the default
ProjectByPriority ==
    LET topic == ChosenTopic(client.cfg)
        embedded == IF IsQualified(topic) THEN topic[2] ELSE "absent"
        declared == IF client.cfg.declared /\ client.cfg.project # ""
                    THEN client.cfg.project ELSE "absent"
    IN  IF embedded # "absent" THEN embedded
        ELSE IF declared # "absent" THEN declared
        ELSE client.default

TopicName ==
    LET topic == ChosenTopic(client.cfg)
    IN  IF IsQualified(topic) THEN <<topic[4]>> ELSE topic

HasProject == ProjectByPriority # "absent" /\ ~Blank(ProjectByPriority)

\* C23: pubsub_trigger publishes to projects/{project}/topics/{topic} with
\* the project chosen in the order embedded, service, default; when that
\* yields no non-blank project nothing is published and an error is raised.
C23_ProjectPriority ==
    (Dispatching("pubsub") /\ ChosenTopic(client.cfg) # NoTopic) =>
        /\ HasProject =>
              /\ client.publishes # <<>>
              /\ \A n \in 1..Len(client.publishes) :
                    client.publishes[n].target =
                        [project |-> ProjectByPriority, topic |-> TopicName]
        /\ ~HasProject =>
              /\ client.publishes = <<>>
              /\ client.pc = "done"
              /\ client.error = "ValueError"
              /\ client.attempts = 1

\* an embedded project wins over the service's and the default
C23_Witness ==
    /\ Dispatching("pubsub")
    /\ client.cfg.topic = Qualified("emb", "t")
    /\ client.cfg.project = "sp"
    /\ client.default = "dp"
    /\ client.pc = "done"
    /\ client.error = "none"
    /\ client.publishes = <<[body |-> client.payload,
                             target |-> [project |-> "emb", topic |-> <<"t">>]]>>

\* no source names a project: nothing is published
C23_WitnessNoProject ==
    /\ Dispatching("pubsub")
    /\ client.cfg.topic = <<"t">>
    /\ client.cfg.project = "absent"
    /\ client.default = "absent"
    /\ client.pc = "done"
    /\ client.error = "ValueError"
    /\ client.publishes = <<>>

\* C25: a plan given as a string is first requested from the server; only a
\* ClientError makes the string a file path; without such a file the
\* construction fails with PlanNotFound.  A plan given as a mapping makes no
\* server request.
C25_ConstructorPlanLookup ==
    client.pc \notin {"new"} =>
        /\ client.plan_arg = "mapping" =>
              client.trace = <<>> /\ client.source = "mapping" /\ client.pc # "failed"
        /\ client.plan_arg = "string" =>
              /\ client.trace # <<>> /\ client.trace[1] = "get_plan"
              /\ client.answer = "ok" =>
                    client.trace = <<"get_plan">> /\ client.source = "server"
              /\ (\E n \in 1..Len(client.trace) : client.trace[n] = "load_plan") <=>
                    client.answer = "HoustonClientError"
              /\ client.answer = "HoustonServerError" =>
                    client.pc = "failed" /\ client.error = "HoustonServerError"
              /\ (client.answer = "HoustonClientError" /\ client.file_exists) =>
                    client.source = "file" /\ client.pc # "failed"
              /\ (client.answer = "HoustonClientError" /\ ~client.file_exists) =>
                    client.pc = "failed" /\ client.error = "HoustonPlanNotFound"

C25_Witness ==
    /\ client.pc = "failed"
    /\ client.plan_arg = "string"
    /\ client.answer = "HoustonClientError"
    /\ ~client.file_exists
    /\ client.trace = <<"get_plan", "load_plan">>
    /\ client.error = "HoustonPlanNotFound"

----------------------------------------------------------------------------
(* SpecRequestLive: one call of request whose attempts each come to an end *)

SpecRequestLive == InitRequest /\ [][NextRequest]_vars /\ WF_vars(NextRequest)

\* the failures that draw on the retry budget: connection failures and busy
\* responses
DrawsOnBudget(resp) == resp.kind = "conn" \/ IsBusy(resp)

\* every attempt but the last met a failure that draws on the budget, and
\* each of them took one retry from it
BudgetSpent ==
    /\ Attempts <= req.retry0 + 1
    /\ req.retry >= 0
    /\ req.retry = req.retry0 - Count(req.log, "sleep")
    /\ Count(req.log, "sleep") =
          Cardinality({n \in 1..Len(req.resps) : DrawsOnBudget(req.resps[n])})
          - (IF req.pc = "done" /\ DrawsOnBudget(req.resps[Len(req.resps)]) THEN 1 ELSE 0)
    /\ req.pc = "done" => req.result.kind \in {"return", "raise"}

----------------------------------------------------------------------------
(* Spec: errors in trigger_all and after the callback returned true *)

\* a dispatch of trigger_all raised in invocation i
TriggerAllRaised(i) == inv[i].trigRaised # "none"

\* C35: trigger_all dispatches in list order and stops at the first failing
\* dispatch: when the dispatch to the k-th stage raises, stages 1..k-1 have
\* been dispatched, stages k+1..N are never dispatched, and the error leaves
\* trigger_all.
C35_TriggerAllStopsAtFirstFailure ==
    \A i \in Invs :
        /\ IsPrefix(inv[i].sent, inv[i].next)
        /\ inv[i].pc = "trig" =>
              /\ ~TriggerAllRaised(i)
              /\ inv[i].sent \o inv[i].todo = inv[i].next
        /\ TriggerAllRaised(i) =>
              LET k == Len(inv[i].sent)
              IN  /\ inv[i].pc = "done"
                  /\ k >= 1
                  /\ inv[i].todo = SubSeq(inv[i].next, k, Len(inv[i].next))
                  /\ \A n \in (k + 1)..Len(inv[i].next) :
                        Count(inv[i].sent, inv[i].next[n]) = 0
                  /\ Len(inv[i].payloads) = k
                  /\ IF SwallowsClientError(inv[i].engine)
                        /\ inv[i].trigRaised = "HoustonClientError"
                     THEN inv[i].outcome = "returned"
                     ELSE inv[i].outcome = "raised"
                          /\ inv[i].raised = inv[i].trigRaised

\* the first of two dispatches raised: the second stage was never dispatched
C35_Witness ==
    \E i \in Invs :
        /\ TriggerAllRaised(i)
        /\ inv[i].next = Downstream
        /\ inv[i].sent = <<"B">>
        /\ inv[i].outcome = "raised"
        /\ dispatched["C"] = 0

\* the second of two dispatches raised after the first went out
C35_WitnessSecond ==
    \E i \in Invs :
        /\ TriggerAllRaised(i)
        /\ inv[i].sent = Downstream
        /\ inv[i].todo = <<"C">>
        /\ inv[i].raised = "TriggerError"

\* the finished-state request of invocation i has been sent
SentFinish(i) == inv[i].finished # <<>>

\* a continuation of the stage is in flight or being handled
InChain ==
    \/ \E e \in net : e.command = "wait"
    \/ \E i \in Invs : inv[i].pc # "idle" /\ inv[i].event.command = "wait"

\* C36: across an execution started by a stage event, its continuation chain
\* included, a finished-state request is sent only after a started-state
\* request was accepted in the originating invocation and func returned
\* without raising.
C36_FinishOnlyAfterStartAndFunc ==
    origin.command = "none" =>
        /\ InChain => began
        /\ \A i \in Invs :
              SentFinish(i) =>
                  /\ began
                  /\ inv[i].err # "FuncError"
                  /\ inv[i].event.command = "none" =>
                        /\ inv[i].startResp = "ok"
                        /\ Len(inv[i].calls) >= 3
                        /\ inv[i].calls[1] = "start_stage"
                        /\ inv[i].calls[2] = "func"

\* a continuation invocation of the chain sent the finished-state request
C36_Witness ==
    /\ origin.command = "none"
    /\ began
    /\ \E i \in Invs :
          /\ inv[i].event.command = "wait"
          /\ inv[i].count = 2
          /\ SentFinish(i)
          /\ inv[i].endResp = "ok"

\* wait began in invocation i, within the ceiling, when the time limit had
\* already elapsed
BeganTooLate(i) ==
    /\ inv[i].engine
    /\ inv[i].pc \notin {"idle", "wait"}
    /\ ~ExceedsCeiling(inv[i].count)
    /\ inv[i].entry >= TimeLimit

\* C37: if the time limit has already elapsed when wait begins, the callback
\* is not invoked in that invocation and, the count being within the
\* ceiling, exactly one continuation trigger is emitted at once, without
\* sleeping.
C37_NoPollWhenLimitElapsed ==
    \A i \in Invs :
        BeganTooLate(i) =>
            /\ inv[i].polls = 0 /\ inv[i].attempts = <<>>
            /\ inv[i].slept = 0
            /\ inv[i].finished = <<>> /\ ~FailedStage(i) /\ inv[i].sent = <<>>
            /\ \/ inv[i].pc = "cont" /\ inv[i].cont = <<>>
               \/ /\ inv[i].pc = "done"
                  /\ Len(inv[i].cont) = 1
                  /\ inv[i].cont[1].wait_invocation_count = inv[i].count + 1
                  /\ inv[i].calls[Len(inv[i].calls)] = "trigger"
                  /\ Count(inv[i].calls, "trigger") = 1

\* func used up the budget: the first invocation hands over at once
C37_Witness ==
    \E i \in Invs :
        /\ BeganTooLate(i)
        /\ inv[i].pc = "done"
        /\ inv[i].calls = <<"start_stage", "func", "trigger">>
        /\ inv[i].outcome = "returned"
        /\ Len(inv[i].cont) = 1
        /\ inv[i].cont[1] \in net

\* C38: in wait, after the callback returned true, a ClientError raised by
\* end_stage or by a downstream dispatch is swallowed: wait returns normally,
\* fail_stage is not called and the stages after the failing point are not
\* dispatched; any other error from end_stage or a dispatch propagates
\* without fail_stage being called.
C38_WaitSwallowsClientError ==
    \A i \in Invs :
        PolledTrue(i) =>
            /\ ~FailedStage(i)
            /\ inv[i].cont = <<>>
            /\ inv[i].endResp = "ClientError" =>
                  /\ inv[i].outcome = "returned" /\ inv[i].raised = "none"
                  /\ inv[i].sent = <<>>
            /\ inv[i].endResp = "ServerError" =>
                  /\ inv[i].outcome = "raised" /\ inv[i].raised = "HoustonServerError"
                  /\ inv[i].sent = <<>>
            /\ inv[i].trigRaised = "HoustonClientError" =>
                  /\ inv[i].outcome = "returned" /\ inv[i].raised = "none"
                  /\ IsPrefix(inv[i].sent, inv[i].next)
                  /\ inv[i].todo = SubSeq(inv[i].next, Len(inv[i].sent), Len(inv[i].next))
            /\ inv[i].trigRaised = "TriggerError" =>
                  /\ inv[i].outcome = "raised" /\ inv[i].raised = "TriggerError"
                  /\ inv[i].todo = SubSeq(inv[i].next, Len(inv[i].sent), Len(inv[i].next))

\* the first dispatch raised a ClientError: wait returned, C was not dispatched
C38_Witness ==
    \E i \in Invs :
        /\ PolledTrue(i)
        /\ inv[i].trigRaised = "HoustonClientError"
        /\ inv[i].next = Downstream
        /\ inv[i].sent = <<"B">>
        /\ inv[i].outcome = "returned"
        /\ ~FailedStage(i)

\* end_stage was rejected with a ClientError and wait returned
C38_WitnessEndStage ==
    \E i \in Invs :
        /\ PolledTrue(i)
        /\ inv[i].endResp = "ClientError"
        /\ inv[i].outcome = "returned"

\* wait began in invocation i with an invocation count above the ceiling
StoppedAtCeiling(i) ==
    /\ inv[i].engine
    /\ inv[i].pc \notin {"idle", "wait"}
    /\ inv[i].count > HOUSTON_MAX_WAIT_INVOCATIONS

\* the step in which wait finds the count of invocation i above the ceiling
CeilingStep(i) ==
    /\ inv[i].pc = "wait"
    /\ inv[i].count > HOUSTON_MAX_WAIT_INVOCATIONS
    /\ inv'[i].pc # "wait"

\* C39: when wait stops because the invocation count exceeds the ceiling,
\* the client sends no stage-state request (neither finished nor failed), so
\* the stage's server-side state is left as it was, still Started.
C39_CeilingLeavesStageStarted ==
    /\ [](\A i \in Invs :
            StoppedAtCeiling(i) =>
                /\ inv[i].pc = "done"
                /\ inv[i].calls = <<>>
                /\ inv[i].finished = <<>> /\ ~FailedStage(i)
                /\ inv[i].polls = 0
                /\ inv[i].outcome = "returned"
                /\ server = "Started")
    /\ [][\A i \in Invs :
            CeilingStep(i) =>
                /\ server' = server
                /\ inv'[i].pc = "done"
                /\ inv'[i].calls = inv[i].calls]_vars

C39_Witness ==
    \E i \in Invs :
        /\ StoppedAtCeiling(i)
        /\ inv[i].count = HOUSTON_MAX_WAIT_INVOCATIONS + 1
        /\ inv[i].pc = "done"
        /\ inv[i].calls = <<>>
        /\ server = "Started"

----------------------------------------------------------------------------
(* SpecDispatch: the Event Grid transport *)

\* trigger selected Event Grid from the parameters of a stage without a
\* service, and the dispatch has ended
InferredEventGrid ==
    /\ client.pc = "done"
    /\ client.attempts >= 1
    /\ ~client.cfg.declared
    /\ client.cfg.ptopic # NoTopic /\ client.cfg.pkey # "absent"

\* C33: when trigger selects Event Grid by inference from the stage's
\* parameters, an event whose data is the payload is published to the topic
\* named by those parameters with that topic key, exactly one when the
\* publish succeeds.
C33_InferredEventGridPublishes ==
    InferredEventGrid =>
        /\ client.events # <<>>
        /\ \A n \in 1..Len(client.events) :
              client.events[n] = [topic |-> client.cfg.ptopic, key |-> client.cfg.pkey,
                                  data |-> client.payload]
        /\ client.error = "none" => Len(client.events) = client.attempts
        /\ (client.error = "none" /\ client.attempts = 1) => Len(client.events) = 1


----------------------------------------------------------------------------
(* SpecCommands: the start and ignore commands of commands.py, each run once
   on a client with a plan.  The state keeps the calls the command made on
   the client, in the order it made them. *)

\* a comma separated string of stage names, as its pieces between the commas
CsvOf(pieces) == [tag |-> "str", val |-> pieces]

\* str.strip on one piece
Strip(piece) == IF piece = " B" THEN "B" ELSE piece

\* commands.py 71-72, 80-81, 90-91, 111: a list is taken as it is, a string is split
\* on "," and each piece stripped
StageList(arg) ==
    IF arg.tag = "list" THEN arg.val ELSE [n \in 1..Len(arg.val) |-> Strip(arg.val[n])]

NoPayload == EmptyDict

\* one call on the client: create_mission, ignore_stage, skip_stage
CommandRequest(op, stage, mission_id) ==
    [op |-> op, stage |-> stage, mission_id |-> mission_id, payload |-> NoPayload]

\* client.py 579-580: the call of trigger that trigger_all makes for a stage
TriggerCallOf(stage, mission_id, plan_name, ignore_dependencies) ==
    [op |-> "trigger", stage |-> stage, mission_id |-> mission_id,
     payload |-> [stage |-> stage, mission_id |-> mission_id, plan |-> plan_name,
                  ignore_dependencies |-> ignore_dependencies,
                  ignore_dependants |-> FALSE]]

\* commands.py 76-77, 85-86, 118-119: except HoustonException: pass
SwallowsHoustonException_Never == FALSE

SwallowsHoustonException == TRUE

\* the request for this stage leaves the loop: an error that is no
\* HoustonException, or a HoustonException that is not passed over
LeavesLoop(name, bad, broken) ==
    name = broken \/ (name \in bad /\ ~SwallowsHoustonException)

RECURSIVE StateRequests(_, _, _, _, _)
\* commands.py 73-77, 82-86, 115-119: one request per name, in order
StateRequests(op, names, mission_id, bad, broken) ==
    IF names = <<>> THEN <<>>
    ELSE <<CommandRequest(op, Head(names), mission_id)>> \o
         (IF LeavesLoop(Head(names), bad, broken) THEN <<>>
          ELSE StateRequests(op, Tail(names), mission_id, bad, broken))

RECURSIVE LoopError(_, _, _)
\* the error that leaves the loop over names, "none" when the loop ends
LoopError(names, bad, broken) ==
    IF names = <<>> THEN "none"
    ELSE IF Head(names) = broken THEN "OSError"
    ELSE IF LeavesLoop(Head(names), bad, broken) THEN "HoustonException"
    ELSE LoopError(Tail(names), bad, broken)

\* the stages among names whose request raised a HoustonException
RaisedFor(names, bad, broken) ==
    {names[n] : n \in {m \in 1..Len(names) :
        /\ names[m] \in bad
        /\ names[m] # broken
        /\ \A k \in 1..(m - 1) : ~LeavesLoop(names[k], bad, broken)}}

\* commands.py 88-93
StartingStages(plan, stages, stage) ==
    IF stages.tag # "none" THEN StageList(stages)
    ELSE IF stage.tag # "none" THEN StageList(stage)
    ELSE LET roots == independent_stages(plan)
         IN  [n \in 1..Len(roots) |-> roots[n].name]

\* client.py 576-580 as start calls it (commands.py 96): the calls of trigger
\* up to and including the first that raises; failAt = 0 when none raises
TriggerCalls(starting, mission_id, plan_name, failAt) ==
    LET last == IF failAt = 0 \/ failAt > Len(starting) THEN Len(starting) ELSE failAt
    IN  [n \in 1..last |-> TriggerCallOf(starting[n], mission_id, plan_name, TRUE)]

\* commands.py 68-96: the order of the calls of start
StartOrder_TriggersFirst(create, ignores, skips, triggers) ==
    create \o triggers \o ignores \o skips

StartOrder(create, ignores, skips, triggers) ==
    create \o ignores \o skips \o triggers

NoArgs == [ignore |-> NoneVal, skip |-> NoneVal, stages |-> NoneVal, stage |-> NoneVal]

\* commands.py 61-99.  resp is the id of the created mission, "missing" when
\* create_mission raises
StartRun(plan, args, resp, bad, broken, failAt) ==
    LET create    == <<CommandRequest("create_mission", "none", "none")>>
        ignNames  == IF args.ignore.tag = "none" THEN <<>> ELSE StageList(args.ignore)
        ignores   == StateRequests("ignore_stage", ignNames, resp, bad, broken)
        ignErr    == LoopError(ignNames, bad, broken)
        skipNames == IF args.skip.tag = "none" \/ ignErr # "none" THEN <<>>
                     ELSE StageList(args.skip)
        skips     == StateRequests("skip_stage", skipNames, resp, bad, broken)
        skipErr   == LoopError(skipNames, bad, broken)
        loopErr   == IF ignErr # "none" THEN ignErr ELSE skipErr
        starting  == StartingStages(plan, args.stages, args.stage)
        triggers  == IF loopErr # "none" THEN <<>>
                     ELSE TriggerCalls(starting, resp, plan.name, failAt)
        trigErr   == IF loopErr = "none" /\ failAt \in 1..Len(starting)
                     THEN "TriggerError" ELSE "none"
        err       == IF loopErr # "none" THEN loopErr ELSE trigErr
    IN  IF resp = "missing"
        THEN [log |-> create, result |-> "raised", err |-> "HoustonException",
              raised |-> {}]
        ELSE [log |-> StartOrder(create, ignores, skips, triggers),
              result |-> IF err = "none" THEN "returned" ELSE "raised",
              err |-> err,
              raised |-> RaisedFor(ignNames \o skipNames, bad, broken)]

\* commands.py 102-121
IgnoreRun(plan, mission_id, stages, stage, bad, broken) ==
    LET given == IF stage.tag # "none" THEN stage ELSE stages
        names == IF given.tag # "none" THEN StageList(given)
                 ELSE [n \in 1..Len(plan.stages) |-> plan.stages[n].name]
        err   == LoopError(names, bad, broken)
    IN  [log |-> StateRequests("ignore_stage", names, mission_id, bad, broken),
         result |-> IF err = "none" THEN "returned" ELSE "raised",
         err |-> err,
         raised |-> RaisedFor(names, bad, broken)]

\* the stage arguments a command is given
IgnoreArgs == {NoneVal, CsvOf(<<"A", " B">>)}

SkipArgs == {NoneVal, ListOf(<<"B", "C">>)}

StagesArgs == {NoneVal, ListOf(<<"A", "B">>)}

StageArgs == {NoneVal, CsvOf(<<" B">>)}

MissionIds == {"m1", "m2"}

Start(args, resp, bad, broken, failAt) ==
    LET run == StartRun(client.plan, args, resp, bad, broken, failAt)
    IN  /\ client.pc = "ready"
        /\ client' = [client EXCEPT !.pc = "done", !.op = "start", !.args = args,
                                    !.mission = resp, !.log = run.log,
                                    !.result = run.result, !.err = run.err,
                                    !.raised = run.raised]
        /\ UNCHANGED <<engineVars, req>>

Ignore(mission_id, stages, stage, bad, broken) ==
    LET run == IgnoreRun(client.plan, mission_id, stages, stage, bad, broken)
    IN  /\ client.pc = "ready"
        /\ client' = [client EXCEPT !.pc = "done", !.op = "ignore",
                                    !.args = [NoArgs EXCEPT !.stages = stages,
                                                            !.stage = stage],
                                    !.mission = mission_id, !.log = run.log,
                                    !.result = run.result, !.err = run.err,
                                    !.raised = run.raised]
        /\ UNCHANGED <<engineVars, req>>

\* the plans of the commands: those of DependencyPlans whose stages give
\* upstream as a list of one stage or not at all, and downstream as a string
\* or not at all
CommandPlans ==
    {p \in DependencyPlans :
        \A n \in 1..Len(p.stages) :
            /\ \/ p.stages[n].upstream.tag = "absent"
               \/ p.stages[n].upstream.tag = "list" /\ Len(p.stages[n].upstream.val) = 1
            /\ p.stages[n].downstream.tag \in {"absent", "str"}}

InitCommands ==
    /\ client \in {[pc |-> "ready", plan |-> p, op |-> "none", args |-> NoArgs,
                    mission |-> "none", log |-> <<>>, result |-> "none",
                    err |-> "none", raised |-> {}] : p \in CommandPlans}
    /\ req = IdleReq
    /\ service = NoCallback
    /\ origin = NoEvent
    /\ net = {}
    /\ inv = [i \in Invs |-> IdleInv]
    /\ server = "NotStarted"
    /\ dispatched = [s \in DownstreamSet |-> 0]
    /\ deliveries = 0
    /\ contTotal = 0
    /\ began = FALSE

NextCommands ==
    \/ /\ client.pc = "ready"
       /\ \E ia \in IgnoreArgs, sa \in SkipArgs, st \in StagesArgs, sg \in StageArgs,
             resp \in {"m1", "missing"}, bad \in SUBSET {"A", "B"},
             broken \in {"none", "B"}, failAt \in 0..2 :
             Start([ignore |-> ia, skip |-> sa, stages |-> st, stage |-> sg],
                   resp, bad, broken, failAt)
    \/ /\ client.pc = "ready"
       /\ \E m \in MissionIds, st \in StagesArgs, sg \in StageArgs,
             bad \in SUBSET StageNames, broken \in {"none", "B"} :
             Ignore(m, st, sg, bad, broken)

SpecCommands == InitCommands /\ [][NextCommands]_vars


\* the calls of one kind the command made, in the order it made them
Calls(op) == SelectSeq(client.log, LAMBDA e : e.op = op)

StagesOf(calls) == [n \in 1..Len(calls) |-> calls[n].stage]

Phase(op) ==
    CASE op = "create_mission" -> 0
      [] op = "ignore_stage"   -> 1
      [] op = "skip_stage"     -> 2
      [] op = "trigger"        -> 3

\* the stage names an argument of a command asks for
Requested(arg) == IF arg.tag = "none" THEN <<>> ELSE StageList(arg)

StartRan == client.pc = "done" /\ client.op = "start"

IgnoreRan == client.pc = "done" /\ client.op = "ignore"

NoStagesGiven == client.args.stages.tag = "none" /\ client.args.stage.tag = "none"

\* C31: start creates exactly one mission, first; every later call carries
\* the id of that mission; the calls come in the order ignore_stage for all
\* requested stages, then skip_stage for all requested stages, then the
\* triggers; the stages triggered are the starting stages in order, all of
\* them when every dispatch succeeds; with no stages requested they are
\* exactly the independent stages in plan order; every trigger carries
\* ignore_dependencies = true.
C31_StartOrderAndStartingStages ==
    StartRan =>
        LET log      == client.log
            ignored  == StagesOf(Calls("ignore_stage"))
            skipped  == StagesOf(Calls("skip_stage"))
            trigs    == Calls("trigger")
            starting == StartingStages(client.plan, client.args.stages, client.args.stage)
            names    == [n \in 1..Len(client.plan.stages) |-> client.plan.stages[n].name]
        IN  /\ Len(Calls("create_mission")) = 1
            /\ log[1].op = "create_mission"
            /\ \A n \in 2..Len(log) :
                  log[n].mission_id = client.mission /\ client.mission \in MissionIds
            /\ \A n \in 1..Len(log) : \A m \in 1..Len(log) :
                  n < m => Phase(log[n].op) <= Phase(log[m].op)
            /\ IsPrefix(ignored, Requested(client.args.ignore))
            /\ IsPrefix(skipped, Requested(client.args.skip))
            /\ IsPrefix(StagesOf(trigs), starting)
            /\ (skipped # <<>> \/ trigs # <<>>) => ignored = Requested(client.args.ignore)
            /\ trigs # <<>> => skipped = Requested(client.args.skip)
            /\ client.result = "returned" =>
                  /\ ignored = Requested(client.args.ignore)
                  /\ skipped = Requested(client.args.skip)
                  /\ StagesOf(trigs) = starting
                  /\ NoStagesGiven =>
                        IsSubsequenceAt(StagesOf(trigs), names,
                            {n \in 1..Len(names) : IsRoot(client.plan.stages, n)})
            /\ \A n \in 1..Len(trigs) :
                  /\ trigs[n].payload.ignore_dependencies = TRUE
                  /\ trigs[n].payload.stage = trigs[n].stage
                  /\ trigs[n].payload.mission_id = client.mission

\* start returned after ignoring and skipping stages, one of whose requests
\* raised a HoustonException, and triggered two independent stages
C31_Witness ==
    /\ StartRan
    /\ client.result = "returned"
    /\ NoStagesGiven
    /\ Len(Calls("ignore_stage")) = 2
    /\ Len(Calls("skip_stage")) = 2
    /\ Len(Calls("trigger")) = 2
    /\ client.raised # {}

\* C32: ignore with no stage list issues one ignore_stage request for every
\* stage of the plan, in plan order, for the mission it was given, whichever
\* of the requests raise a HoustonException.
C32_IgnoreCoversEveryStage ==
    (IgnoreRan /\ NoStagesGiven /\ client.err # "OSError") =>
        /\ StagesOf(client.log) =
              [n \in 1..Len(client.plan.stages) |-> client.plan.stages[n].name]
        /\ \A n \in 1..Len(client.log) :
              /\ client.log[n].op = "ignore_stage"
              /\ client.log[n].mission_id = client.mission
        /\ client.result = "returned"

\* the request for the first stage of a plan of two stages raised a
\* HoustonException and the second stage was requested all the same
C32_Witness ==
    /\ IgnoreRan
    /\ NoStagesGiven
    /\ Len(client.plan.stages) >= 2
    /\ client.plan.stages[1].name \in client.raised
    /\ Len(client.log) = Len(client.plan.stages)
    /\ client.log[2].stage = client.plan.stages[2].name

=============================================================================
